---------------------------- MODULE Spec2Model ----------------------------
(***************************************************************************)
(* A model of the search pipeline of smart_research:                       *)
(*   backend/app.py                 search_papers (POST /api/search)       *)
(*   backend/core/scholar_scraper.py EnhancedScholarScraper                *)
(*   backend/core/database.py        Database (search_cache, papers)       *)
(*                                                                         *)
(* Conventions.  A Python str is a sequence of one-character strings.      *)
(* A Python value that may be None is None == <<>> or Some(v) == <<v>>.    *)
(* Time is the wall clock in whole hours.                                  *)
(***************************************************************************)
EXTENDS Integers, Sequences, FiniteSets, TLC

VARIABLES
    clock,          \* wall clock, hours (datetime.now(), CURRENT_TIMESTAMP)
    search_cache,   \* table search_cache: rows in rowid order
    papers_tbl,     \* table papers: rows in rowid order
    pc,             \* position of the one in-flight /api/search request
    req,            \* the request's JSON body: query, max_results
    papers,         \* scrape_papers' local list `papers`
    page_num,       \* scrape_papers' local counter `page_num`
    page,           \* the results page the open browser shows
    driver,         \* the automation session: "none" | "open" | "quit"
    resp,           \* the last HTTP response of /api/search
    calls,          \* history: collaborator calls made by the current request
    cached,         \* history: what get_cached_search returned to it
    stop,           \* history: why the page loop of the current run ended
    extracted,      \* history: <<page, paper>> of every block extracted in the run
    last,           \* history: the last scraped response whose cache write was accepted
    dbcall,         \* history: the last direct call of a Database method
    putlog,         \* history: per query hash, the last direct Put the store accepted
    savelog,        \* history: per paper id, the last save_paper the store accepted
    files,          \* papers_dir: file name -> content
    dl,             \* the last /api/download-pdf request, its response, and history:
                    \* papers_dir before it, per paper id the content last fetched
    fn,             \* history: the last two applications of a function called directly
                    \* (with concurrent store calls: the Puts begun, one per list)
    ev,             \* history: what scrape_papers did since its last navigation but one
    th              \* the calls served concurrently: thread -> the locals of its call

vars == <<clock, search_cache, papers_tbl, pc, req, papers, page_num, page, driver,
          resp, calls, cached, stop, extracted, last, dbcall, putlog, savelog,
          files, dl, fn, ev, th>>

svcVars == <<pc, req, papers, page_num, page, driver, resp, calls, cached, stop,
             extracted, last>>

dbHist == <<last, dbcall, putlog, savelog>>

ioVars == <<files, dl, fn, th>>

auxVars == <<files, dl, fn, ev, th>>

-----------------------------------------------------------------------------
(* Bounds of the model *)

\* the clock stops advancing here
MaxClock == 36
\* the largest max_results a request asks for
MaxResults == 2
\* page_num is counted up to here (the code never reads it)
MaxPageNum == 2

(* Program constants *)

\* get_cached_search(..., cache_hours=24)
cache_hours == 24

\* the step of the model's clock, in hours
TickHours == 12

-----------------------------------------------------------------------------
(* Python values *)

None == <<>>

Some(v) == <<v>>

\* str.lower() on one character
LowerChar(c) ==
    CASE c = "X" -> "x"
      [] c = "Y" -> "y"
      [] c = "P" -> "p"
      [] c = "D" -> "d"
      [] c = "F" -> "f"
      [] OTHER -> c

\* str.lower()
Lower(s) == [i \in 1..Len(s) |-> LowerChar(s[i])]

IsSpace(c) == c = " "

RECURSIVE LStrip(_)
LStrip(s) ==
    IF s # <<>> /\ IsSpace(Head(s)) THEN LStrip(Tail(s)) ELSE s

RECURSIVE RStrip(_)
RStrip(s) ==
    IF s # <<>> /\ IsSpace(s[Len(s)]) THEN RStrip(SubSeq(s, 1, Len(s) - 1)) ELSE s

\* str.strip()
Strip(s) == RStrip(LStrip(s))

DigitChars == <<"0", "1", "2", "3", "4", "5", "6", "7", "8", "9">>

IsDigit(c) == \E d \in 1..10 : DigitChars[d] = c

DigitVal(c) == (CHOOSE d \in 1..10 : DigitChars[d] = c) - 1

\* str(n) for an int n >= 0
RECURSIVE Str(_)
Str(n) ==
    IF n < 10 THEN <<DigitChars[n + 1]>>
    ELSE Str(n \div 10) \o <<DigitChars[(n % 10) + 1]>>

\* int(s) for a non-empty string of digits
RECURSIVE IntOf(_)
IntOf(s) ==
    IF Len(s) = 1 THEN DigitVal(s[1])
    ELSE 10 * IntOf(SubSeq(s, 1, Len(s) - 1)) + DigitVal(s[Len(s)])

\* ''.join(filter(str.isdigit, s))
Digits(s) == SelectSeq(s, IsDigit)

\* hashlib.md5(s.encode()).hexdigest(): a deterministic digest of s
\* (collisions of MD5 are not modelled)
Md5(s) == <<"md5", s>>

\* the keys of a paper dict whose value may be None
OptionalKeys == {"year", "pdf_url"}

\* json.dumps of one paper dict: None becomes null, every other value a JSON value
JsonObject(p) ==
    [k \in DOMAIN p |->
        IF k \in OptionalKeys
        THEN (IF p[k] = None THEN <<"null">> ELSE <<"value", p[k][1]>>)
        ELSE <<"value", p[k]>>]

\* json.loads of one JSON object
PyDict(o) ==
    [k \in DOMAIN o |->
        IF k \in OptionalKeys
        THEN (IF o[k][1] = "null" THEN None ELSE Some(o[k][2]))
        ELSE o[k][2]]

\* json.dumps(results), results a list of paper dicts
JsonDumps(results) == [i \in 1..Len(results) |-> JsonObject(results[i])]

\* json.loads(text)
JsonLoads(text) == [i \in 1..Len(text) |-> PyDict(text[i])]

-----------------------------------------------------------------------------
(* Result Extractor: EnhancedScholarScraper._extract_paper_data            *)
(*                                                                         *)
(* A result block (.gs_ri) is the record of the elements the extractor     *)
(* looks up; an element that is not in the block is None:                  *)
(*   title_a   ".gs_rt a"        Some([text, href])                        *)
(*   gs_a      ".gs_a"           Some(parts): its text, given as the parts *)
(*                               that text.split(' - ') yields             *)
(*   gs_rs     ".gs_rs"          Some(text)                                *)
(*   cited_by  a 'Cited by' link Some(text)                                *)
(*   pdf_a     ".gs_or_ggsm a"   Some(href)                                *)

\* ' - '.join(parts): the text of the .gs_a element
RECURSIVE JoinParts(_)
JoinParts(parts) ==
    IF Len(parts) = 1 THEN parts[1]
    ELSE parts[1] \o <<" ", "-", " ">> \o JoinParts(Tail(parts))

HasDigit(s) == \E i \in 1..Len(s) : IsDigit(s[i])

\* the loop `for part in authors_text.split(' - ')`, year_match being ym so far
RECURSIVE YearScan(_, _)
YearScan(parts, ym) ==
    IF parts = <<>> THEN ym
    ELSE LET part == Head(parts)
             d == Digits(part)
         IN  IF HasDigit(part)
             THEN IF Len(d) = 4 /\ d[1] = "2" /\ d[2] = "0"
                  THEN Some(d)
                  ELSE YearScan(Tail(parts), Some(d))
             ELSE YearScan(Tail(parts), ym)

\* a faulty variant: a block without a 'Cited by' link fails too
ExtractRaisesNoCitation(b) ==
    \/ b.title_a = None
    \/ b.gs_a = None
    \/ b.gs_rs = None
    \/ b.cited_by = None
    \/ Digits(b.cited_by[1]) = <<>>

\* the lookups that raise inside the outer try: find_element of a missing
\* title link, detail line or snippet, and int('') of a citation text without digits
ExtractRaises(b) ==
    \/ b.title_a = None
    \/ b.gs_a = None
    \/ b.gs_rs = None
    \/ (b.cited_by # None /\ Digits(b.cited_by[1]) = <<>>)

\* a faulty variant: the id is the digest of the title and the time of extraction
extract_paper_data_id_of_run(b, now) ==
    IF ExtractRaises(b) THEN None
    ELSE LET parts == b.gs_a[1]
             ym == YearScan(parts, None)
             title == Strip(b.title_a[1].text)
         IN  Some([title |-> title,
                   url |-> b.title_a[1].href,
                   authors |-> IF Len(parts) > 1 THEN parts[1] ELSE JoinParts(parts),
                   year |-> IF ym # None THEN Some(IntOf(ym[1])) ELSE None,
                   snippet |-> Strip(b.gs_rs[1]),
                   citations |-> IF b.cited_by # None
                                 THEN IntOf(Digits(b.cited_by[1])) ELSE 0,
                   pdf_url |-> b.pdf_a,
                   scraped_at |-> now,
                   id |-> Md5(title \o Str(now))])

\* _extract_paper_data(result_element) at time now: Some(paper_data) or None
extract_paper_data(b, now) ==
    IF ExtractRaises(b) THEN None
    ELSE LET parts == b.gs_a[1]
             ym == YearScan(parts, None)
             title == Strip(b.title_a[1].text)
         IN  Some([title |-> title,
                   url |-> b.title_a[1].href,
                   authors |-> IF Len(parts) > 1 THEN parts[1] ELSE JoinParts(parts),
                   year |-> IF ym # None THEN Some(IntOf(ym[1])) ELSE None,
                   snippet |-> Strip(b.gs_rs[1]),
                   citations |-> IF b.cited_by # None
                                 THEN IntOf(Digits(b.cited_by[1])) ELSE 0,
                   pdf_url |-> b.pdf_a,
                   scraped_at |-> now,
                   id |-> Md5(title)])

-----------------------------------------------------------------------------
(* Cache/Dedup Store: Database                                             *)
(*                                                                         *)
(* A table is the sequence of its rows in rowid order.  The AUTOINCREMENT  *)
(* id of search_cache and its expires_at column (never written) are not    *)
(* read by any statement and are left out.  err is the outcome "sqlite3    *)
(* raised" (no table, locked or unreadable database), which every method   *)
(* catches.                                                                *)

\* a faulty variant: the query is hashed as given
generate_query_hash_raw(query, max_results) ==
    Md5(query \o <<"_">> \o Str(max_results))

\* _generate_query_hash(query, max_results)
generate_query_hash(query, max_results) ==
    Md5(Strip(Lower(query)) \o <<"_">> \o Str(max_results))

\* a faulty variant: the age of the row is not looked at
get_cached_search_any_age(tbl, query, max_results, now, err) ==
    IF err THEN None
    ELSE LET h == generate_query_hash(query, max_results)
             Match(r) == r.query_hash = h
             rows == SelectSeq(tbl, Match)
         IN  IF rows # <<>> THEN Some(JsonLoads(rows[1].results)) ELSE None

\* get_cached_search(query, max_results, cache_hours=24) at time now:
\* Some(list) or None
get_cached_search(tbl, query, max_results, now, err) ==
    IF err THEN None
    ELSE LET h == generate_query_hash(query, max_results)
             Match(r) == r.query_hash = h /\ r.created_at + cache_hours > now
             rows == SelectSeq(tbl, Match)
         IN  IF rows # <<>> THEN Some(JsonLoads(rows[1].results)) ELSE None

\* INSERT OR REPLACE INTO search_cache: query_hash is UNIQUE, so a row with the
\* same query_hash is deleted before the new row is inserted
ReplaceIntoCache(tbl, row) ==
    LET Other(r) == r.query_hash # row.query_hash
    IN  SelectSeq(tbl, Other) \o <<row>>

\* a faulty variant: the row is inserted and nothing is deleted
cache_search_results_noreplace(tbl, query, max_results, results, now, err) ==
    IF err THEN tbl
    ELSE tbl \o <<[query_hash |-> generate_query_hash(query, max_results),
                   query |-> query,
                   max_results |-> max_results,
                   results |-> JsonDumps(results),
                   created_at |-> now]>>

\* a faulty variant: a row that replaces another keeps the created_at of the
\* row it replaces
cache_search_results_keeps_created(tbl, query, max_results, results, now, err) ==
    IF err THEN tbl
    ELSE LET h == generate_query_hash(query, max_results)
             Same(r) == r.query_hash = h
             old == SelectSeq(tbl, Same)
         IN  ReplaceIntoCache(tbl,
                 [query_hash |-> h,
                  query |-> query,
                  max_results |-> max_results,
                  results |-> JsonDumps(results),
                  created_at |-> IF old # <<>> THEN old[1].created_at ELSE now])

\* cache_search_results(query, max_results, results) at time now: the table after
cache_search_results(tbl, query, max_results, results, now, err) ==
    IF err THEN tbl
    ELSE ReplaceIntoCache(tbl,
             [query_hash |-> generate_query_hash(query, max_results),
              query |-> query,
              max_results |-> max_results,
              results |-> JsonDumps(results),
              created_at |-> now])

\* paper_data.get(key): the value, or None when the key is absent
DictGet(d, key) == IF key \in DOMAIN d THEN Some(d[key]) ELSE None

\* the row save_paper binds to its INSERT; a column is NULL (None) or a value
PaperRow(paper_data, now) ==
    [id |-> DictGet(paper_data, "id"),
     title |-> DictGet(paper_data, "title"),
     authors |-> DictGet(paper_data, "authors"),
     year |-> IF "year" \in DOMAIN paper_data THEN paper_data.year ELSE None,
     snippet |-> DictGet(paper_data, "snippet"),
     url |-> DictGet(paper_data, "url"),
     pdf_url |-> IF "pdf_url" \in DOMAIN paper_data THEN paper_data.pdf_url ELSE None,
     citations |-> IF "citations" \in DOMAIN paper_data THEN paper_data.citations ELSE 0,
     abstract |-> DictGet(paper_data, "abstract"),
     metadata |-> IF "metadata" \in DOMAIN paper_data THEN paper_data.metadata ELSE "{}",
     created_at |-> now]

\* INSERT OR REPLACE INTO papers: id is the PRIMARY KEY, so a row with the same
\* id is deleted before the new row is inserted
ReplaceIntoPapers(tbl, row) ==
    LET Other(r) == r.id # row.id
    IN  SelectSeq(tbl, Other) \o <<row>>

\* a faulty variant: INSERT OR IGNORE, the stored row wins
save_paper_ignore(tbl, paper_data, now, err) ==
    IF err THEN tbl
    ELSE LET row == PaperRow(paper_data, now)
         IN  IF \E i \in 1..Len(tbl) : tbl[i].id = row.id THEN tbl ELSE tbl \o <<row>>

\* save_paper(paper_data) at time now: the table after
save_paper(tbl, paper_data, now, err) ==
    IF err THEN tbl
    ELSE ReplaceIntoPapers(tbl, PaperRow(paper_data, now))

-----------------------------------------------------------------------------
(* The result pages the site serves *)

\* a complete block: title "t1", year 2020, cited by 5, no PDF link
BlockA ==
    [title_a |-> Some([text |-> <<"t", "1">>, href |-> "u1"]),
     gs_a |-> Some(<< <<"A">>, <<"J", " ", "2", "0", "2", "0">> >>),
     gs_rs |-> Some(<<"s">>),
     cited_by |-> Some(<<"C", "i", "t", "e", "d", " ", "b", "y", " ", "5">>),
     pdf_a |-> None]

\* a block with title "t2", no year, no citation link, a PDF link
BlockB ==
    [title_a |-> Some([text |-> <<"t", "2">>, href |-> "u2"]),
     gs_a |-> Some(<< <<"B">> >>),
     gs_rs |-> Some(<<"s">>),
     cited_by |-> None,
     pdf_a |-> Some("p2")]

\* a block without a title link (a [CITATION] entry): extraction fails
BlockBad ==
    [title_a |-> None,
     gs_a |-> Some(<< <<"C">> >>),
     gs_rs |-> Some(<<"s">>),
     cited_by |-> None,
     pdf_a |-> None]

\* the block lists of the pages that render: one or two blocks, complete ones,
\* failing ones and both
PageBlocks ==
    { <<BlockA>>, <<BlockA, BlockB>>, <<BlockBad>>, <<BlockBad, BlockB>>,
      <<BlockBad, BlockBad>> }

\* A page: its .gs_ri blocks in document order (none when the results never
\* render) and whether a challenge marker is on it.  Of the pages with a marker,
\* whose blocks are never read, one with results and one without.
Pages ==
    { [blocks |-> bs, captcha |-> FALSE] : bs \in PageBlocks \cup {<<>>} }
    \cup { [blocks |-> bs, captcha |-> TRUE] : bs \in {<<>>, <<BlockA>>} }

\* the "Next" control of a page, as find_element and get_attribute('class') find it;
\* "stale": the click (execute_script) raises
NextStates == {"absent", "disabled", "stale"}

NoPage == [blocks |-> <<>>, captcha |-> FALSE]

\* _detect_captcha(driver)
detect_captcha(pg) == pg.captcha

-----------------------------------------------------------------------------
(* Pagination Driver: EnhancedScholarScraper.scrape_papers *)

\* self.delay_range, seconds
delay_range == <<2, 5>>

\* a faulty variant: a delay drawn from 0 up to the upper end of the range
RandomUniformFromZero(range) == 0..range[2]

\* random.uniform(a, b), in whole seconds
RandomUniform(range) == range[1]..range[2]

\* an event of a run
Ev(name) == [e |-> name]

\* _detect_captcha was called and returned found
PollEv(found) == [e |-> "poll", found |-> found]

\* _random_delay slept d seconds
DelayEv(d) ==
    [e |-> "delay", in_window |-> d >= delay_range[1] /\ d <= delay_range[2]]

\* the navigations the driver starts: driver.get, search_box.submit, the click
\* on "Next"
IsNav(x) == x.e \in {"get", "submit", "click"}

\* the events from the last navigation on
RECURSIVE SinceLastNav(_)
SinceLastNav(es) ==
    IF es = <<>> THEN <<>>
    ELSE IF IsNav(es[Len(es)]) THEN <<es[Len(es)]>>
    ELSE LET rest == SinceLastNav(SubSeq(es, 1, Len(es) - 1))
         IN  IF rest = <<>> THEN <<>> ELSE Append(rest, es[Len(es)])

\* a faulty variant: the home page pause is taken whatever _detect_captcha found
SetupEventsAlwaysSleep(challenge, d1, d2) ==
    <<Ev("start"), Ev("get"), DelayEv(d1), PollEv(challenge), Ev("sleep30"),
      Ev("wait_q"), Ev("submit"), DelayEv(d2)>>

\* scrape_papers from _setup_driver to the delay after search_box.submit;
\* challenge: what _detect_captcha finds on the home page
SetupEvents(challenge, d1, d2) ==
    <<Ev("start"), Ev("get"), DelayEv(d1), PollEv(challenge)>>
    \o (IF challenge THEN <<Ev("sleep30")>> ELSE <<>>)
    \o <<Ev("wait_q"), Ev("submit"), DelayEv(d2)>>

\* the same when the wait for the search box raises
SetupFailEvents(challenge, d1) ==
    <<Ev("start"), Ev("get"), DelayEv(d1), PollEv(challenge)>>
    \o (IF challenge THEN <<Ev("sleep30")>> ELSE <<>>)
    \o <<Ev("wait_q_timeout"), Ev("quit")>>

\* an iteration whose results wait raises
TimeoutEvents(es) == SinceLastNav(es) \o <<Ev("wait_timeout"), Ev("quit")>>

\* an iteration that finds a challenge
ChallengeEvents(es) == SinceLastNav(es) \o <<Ev("wait"), PollEv(TRUE), Ev("quit")>>

\* an iteration that extracts its page and leaves the loop at the "Next" control
StopEvents(es, next) ==
    SinceLastNav(es)
    \o <<Ev("wait"), PollEv(FALSE), Ev("extract")>>
    \o (IF next = "stale" THEN <<Ev("click_raises")>> ELSE <<Ev("no_next")>>)
    \o <<Ev("quit")>>

\* an iteration that extracts its page and clicks "Next"
NextEvents(es, d) ==
    SinceLastNav(es)
    \o <<Ev("wait"), PollEv(FALSE), Ev("extract"), Ev("click"), DelayEv(d)>>

\* a faulty variant: the for loop without `if len(papers) >= max_results: break`
RECURSIVE ExtractPageNoQuota(_, _, _, _)
ExtractPageNoQuota(ps, blocks, max_results, now) ==
    IF blocks = <<>> THEN ps
    ELSE LET paper_data == extract_paper_data(Head(blocks), now)
         IN  ExtractPageNoQuota(
                 IF paper_data # None THEN Append(ps, paper_data[1]) ELSE ps,
                 Tail(blocks), max_results, now)

\* a for loop that is left at the first block _extract_paper_data fails on
RECURSIVE ExtractPageAborts(_, _, _, _)
ExtractPageAborts(ps, blocks, max_results, now) ==
    IF blocks = <<>> \/ Len(ps) >= max_results THEN ps
    ELSE LET paper_data == extract_paper_data(Head(blocks), now)
         IN  IF paper_data = None THEN ps
             ELSE ExtractPageAborts(Append(ps, paper_data[1]), Tail(blocks),
                                    max_results, now)

\* a faulty variant: a new paper is put at the head of the list
RECURSIVE ExtractPagePrepends(_, _, _, _)
ExtractPagePrepends(ps, blocks, max_results, now) ==
    IF blocks = <<>> \/ Len(ps) >= max_results THEN ps
    ELSE LET paper_data == extract_paper_data(Head(blocks), now)
         IN  ExtractPagePrepends(IF paper_data # None THEN <<paper_data[1]>> \o ps ELSE ps,
                                 Tail(blocks), max_results, now)

\* the loop `for result_elem in result_elements` over the rest of a page
RECURSIVE ExtractPage(_, _, _, _)
ExtractPage(ps, blocks, max_results, now) ==
    IF blocks = <<>> \/ Len(ps) >= max_results THEN ps
    ELSE LET paper_data == extract_paper_data(Head(blocks), now)
         IN  ExtractPage(IF paper_data # None THEN Append(ps, paper_data[1]) ELSE ps,
                         Tail(blocks), max_results, now)

\* page_num += 1, counted up to MaxPageNum
NextPageNum(n) == IF n < MaxPageNum THEN n + 1 ELSE n

-----------------------------------------------------------------------------
(* The requests of the model *)

\* request bodies' query: absent or empty, "X"
Queries == { <<>>, <<"X">> }

Sizes == {MaxResults}

NoReq == [query |-> <<>>, max_results |-> 0]

NoResp == [status |-> 0, papers |-> <<>>, from_cache |-> FALSE]

NoStop == [why |-> "none", page |-> 0]

NoLast == [query |-> <<>>, max_results |-> 0, papers |-> <<>>, at |-> 0,
           stored |-> FALSE]

NoCall == [op |-> "none", key |-> <<>>, err |-> FALSE, ret |-> None, at |-> 0]

\* no answer of a file server
NoNet == [error |-> TRUE, status |-> 0, content_type |-> None, content |-> "",
          write |-> "ok"]

NoDownload == [paper_id |-> <<>>, pdf_url |-> "", net |-> NoNet, called |-> FALSE,
               gets |-> 0, raised |-> FALSE, filepath |-> None, status |-> 0, before |-> <<>>,
               latest |-> <<>>]

\* if cached_results: a list that is not None and not empty
Truthy(opt) == opt # None /\ opt[1] # <<>>

Init ==
    /\ clock = 0
    /\ search_cache = <<>>
    /\ papers_tbl = <<>>
    /\ pc = "idle"
    /\ req = NoReq
    /\ papers = <<>>
    /\ page_num = 0
    /\ page = NoPage
    /\ driver = "none"
    /\ resp = NoResp
    /\ calls = <<>>
    /\ cached = None
    /\ stop = NoStop
    /\ extracted = <<>>
    /\ last = NoLast
    /\ dbcall = NoCall
    /\ putlog = <<>>
    /\ savelog = <<>>
    /\ files = <<>>
    /\ dl = NoDownload
    /\ fn = <<>>
    /\ ev = <<>>
    /\ th = <<>>

Call(op, err) == [op |-> op, err |-> err, at |-> clock]

-----------------------------------------------------------------------------
(* POST /api/search: search_papers *)

\* a faulty variant: the cache is looked up before the query is validated
SearchRequestLookupFirst(q, n, err) ==
    /\ pc = "idle"
    /\ req' = [query |-> q, max_results |-> n]
    /\ LET cached_results == get_cached_search(search_cache, q, n, clock, err)
       IN  /\ calls' = <<Call("get", err)>>
           /\ cached' = cached_results
           /\ IF q = <<>>
              THEN /\ resp' = [status |-> 400, papers |-> <<>>, from_cache |-> FALSE]
                   /\ pc' = "responded"
              ELSE IF Truthy(cached_results)
                   THEN /\ resp' = [status |-> 200, papers |-> cached_results[1],
                                    from_cache |-> TRUE]
                        /\ pc' = "responded"
                   ELSE /\ resp' = NoResp
                        /\ pc' = "setup"
    /\ UNCHANGED <<auxVars, clock, search_cache, papers_tbl, papers, page_num, page,
                   driver, stop, extracted, dbHist>>

\* search_papers up to the call of scrape_papers: validation, cache lookup and,
\* on a cached list that is truthy, the response
SearchRequest(q, n, err) ==
    /\ pc = "idle"
    /\ req' = [query |-> q, max_results |-> n]
    /\ IF q = <<>>
       THEN /\ resp' = [status |-> 400, papers |-> <<>>, from_cache |-> FALSE]
            /\ calls' = <<>>
            /\ cached' = None
            /\ pc' = "responded"
       ELSE LET cached_results == get_cached_search(search_cache, q, n, clock, err)
            IN  /\ calls' = <<Call("get", err)>>
                /\ cached' = cached_results
                /\ IF Truthy(cached_results)
                   THEN /\ resp' = [status |-> 200, papers |-> cached_results[1],
                                    from_cache |-> TRUE]
                        /\ pc' = "responded"
                   ELSE /\ resp' = NoResp
                        /\ pc' = "setup"
    /\ UNCHANGED <<auxVars, clock, search_cache, papers_tbl, papers, page_num, page, driver,
                   stop, extracted, dbHist>>

\* scrape_papers up to the page loop, when a call raises: _setup_driver (no
\* session to quit), or a later one such as the wait for the search box
ScrapeStartFail(outcome) ==
    /\ pc = "setup"
    /\ calls' = Append(calls, Call("scrape", FALSE))
    /\ driver' = IF outcome = "driver_error" THEN "none" ELSE "quit"
    /\ stop' = [why |-> outcome, page |-> 0]
    /\ pc' = "raised"
    /\ \E challenge \in BOOLEAN, d1 \in RandomUniform(delay_range) :
          ev' = IF outcome = "driver_error" THEN <<Ev("start_failed")>>
                ELSE SetupFailEvents(challenge, d1)
    /\ UNCHANGED <<ioVars, clock, search_cache, papers_tbl, req, papers, page_num, page, resp,
                   cached, extracted, dbHist>>

\* scrape_papers up to the page loop: start the session, open the site, submit
\* the query; the browser loads the first results page pg
ScrapeStart(pg) ==
    /\ pc = "setup"
    /\ calls' = Append(calls, Call("scrape", FALSE))
    /\ driver' = "open"
    /\ page' = pg
    /\ pc' = "loop"
    /\ \E challenge \in BOOLEAN, d1, d2 \in RandomUniform(delay_range) :
          ev' = SetupEvents(challenge, d1, d2)
    /\ UNCHANGED <<ioVars, clock, search_cache, papers_tbl, req, papers, page_num, resp,
                   cached, stop, extracted, dbHist>>

\* while len(papers) < max_results: the condition is false
LoopExit ==
    /\ pc = "loop"
    /\ ~(Len(papers) < req.max_results)
    /\ stop' = [why |-> "quota", page |-> page_num + 1]
    /\ driver' = "quit"
    /\ page' = NoPage
    /\ pc' = "returned"
    /\ ev' = Append(ev, Ev("quit"))
    /\ UNCHANGED <<ioVars, clock, search_cache, papers_tbl, req, papers, page_num, resp,
                   calls, cached, extracted, dbHist>>

\* a faulty variant: the timeout leaves the loop with a break and the run returns
PageTimeoutBreaks ==
    /\ pc = "loop"
    /\ Len(papers) < req.max_results
    /\ page.blocks = <<>>
    /\ stop' = [why |-> "timeout", page |-> page_num + 1]
    /\ driver' = "quit"
    /\ page' = NoPage
    /\ pc' = "returned"
    /\ ev' = TimeoutEvents(ev)
    /\ UNCHANGED <<ioVars, clock, search_cache, papers_tbl, req, papers, page_num, resp,
                   calls, cached, extracted, dbHist>>

\* WebDriverWait(driver, 10).until(presence of .gs_ri) raises TimeoutException,
\* which leaves scrape_papers through `except: raise` and `finally: driver.quit()`
PageTimeout ==
    /\ pc = "loop"
    /\ Len(papers) < req.max_results
    /\ page.blocks = <<>>
    /\ stop' = [why |-> "timeout", page |-> page_num + 1]
    /\ driver' = "quit"
    /\ page' = NoPage
    /\ pc' = "raised"
    /\ ev' = TimeoutEvents(ev)
    /\ UNCHANGED <<ioVars, clock, search_cache, papers_tbl, req, papers, page_num, resp,
                   calls, cached, extracted, dbHist>>

\* a faulty variant: the challenge is looked for after the page was extracted
PageCaptchaLate ==
    /\ pc = "loop"
    /\ Len(papers) < req.max_results
    /\ page.blocks # <<>>
    /\ detect_captcha(page)
    /\ LET ps == ExtractPage(papers, page.blocks, req.max_results, clock)
       IN  /\ papers' = ps
           /\ extracted' = extracted \o
                  [i \in 1..(Len(ps) - Len(papers)) |->
                      [page |-> page_num + 1, paper |-> ps[Len(papers) + i]]]
    /\ stop' = [why |-> "captcha", page |-> page_num + 1]
    /\ driver' = "quit"
    /\ page' = NoPage
    /\ pc' = "returned"
    /\ ev' = ChallengeEvents(ev)
    /\ UNCHANGED <<ioVars, clock, search_cache, papers_tbl, req, page_num, resp, calls, cached,
                   dbHist>>

\* if self._detect_captcha(driver): break
PageCaptcha ==
    /\ pc = "loop"
    /\ Len(papers) < req.max_results
    /\ page.blocks # <<>>
    /\ detect_captcha(page)
    /\ stop' = [why |-> "captcha", page |-> page_num + 1]
    /\ driver' = "quit"
    /\ page' = NoPage
    /\ pc' = "returned"
    /\ ev' = ChallengeEvents(ev)
    /\ UNCHANGED <<ioVars, clock, search_cache, papers_tbl, req, papers, page_num, resp,
                   calls, cached, extracted, dbHist>>

\* the for loop of one iteration: papers and the history of what was extracted
ExtractStep ==
    LET ps == ExtractPage(papers, page.blocks, req.max_results, clock)
    IN  /\ papers' = ps
        /\ extracted' = extracted \o
               [i \in 1..(Len(ps) - Len(papers)) |->
                   [page |-> page_num + 1, paper |-> ps[Len(papers) + i]]]

\* one iteration that extracts the page and leaves the loop at the "Next" control:
\* no control (break), a disabled control (break), or a click that raises
PageExtractStop(next) ==
    /\ pc = "loop"
    /\ Len(papers) < req.max_results
    /\ page.blocks # <<>>
    /\ ~detect_captcha(page)
    /\ ExtractStep
    /\ stop' = [why |-> next, page |-> page_num + 1]
    /\ driver' = "quit"
    /\ page' = NoPage
    /\ pc' = IF next = "stale" THEN "raised" ELSE "returned"
    /\ ev' = StopEvents(ev, next)
    /\ UNCHANGED <<ioVars, clock, search_cache, papers_tbl, req, page_num, resp, calls, cached,
                   dbHist>>

\* one iteration that extracts the page and clicks "Next": the browser loads pg
PageExtractNext(pg) ==
    /\ pc = "loop"
    /\ Len(papers) < req.max_results
    /\ page.blocks # <<>>
    /\ ~detect_captcha(page)
    /\ ExtractStep
    /\ page' = pg
    /\ page_num' = NextPageNum(page_num)
    /\ \E d \in RandomUniform(delay_range) : ev' = NextEvents(ev, d)
    /\ UNCHANGED <<ioVars, clock, search_cache, papers_tbl, pc, req, driver, resp, calls,
                   cached, stop, dbHist>>

\* a faulty variant: an error of the cache write fails the request
SearchFinishStoreFails(err) ==
    /\ pc = "returned"
    /\ search_cache' = cache_search_results(search_cache, req.query, req.max_results,
                                            papers, clock, err)
    /\ calls' = Append(calls, Call("put", err))
    /\ resp' = IF err THEN [status |-> 500, papers |-> <<>>, from_cache |-> FALSE]
               ELSE [status |-> 200, papers |-> papers, from_cache |-> FALSE]
    /\ last' = IF err THEN last
                ELSE [query |-> req.query, max_results |-> req.max_results,
                      papers |-> papers, at |-> clock, stored |-> TRUE]
    /\ pc' = "responded"
    /\ UNCHANGED <<auxVars, clock, papers_tbl, req, papers, page_num, page, driver,
                   cached, stop, extracted, dbcall, putlog, savelog>>

\* scrape_papers returned: cache_search_results, then the response
SearchFinish(err) ==
    /\ pc = "returned"
    /\ search_cache' = cache_search_results(search_cache, req.query, req.max_results,
                                            papers, clock, err)
    /\ calls' = Append(calls, Call("put", err))
    /\ resp' = [status |-> 200, papers |-> papers, from_cache |-> FALSE]
    /\ last' = IF err THEN last
                ELSE [query |-> req.query, max_results |-> req.max_results,
                      papers |-> papers, at |-> clock, stored |-> TRUE]
    /\ pc' = "responded"
    /\ UNCHANGED <<auxVars, clock, papers_tbl, req, papers, page_num, page, driver, cached,
                   stop, extracted, dbcall, putlog, savelog>>

\* a faulty variant: the papers collected before the exception are cached
SearchFailStores ==
    /\ pc = "raised"
    /\ search_cache' = cache_search_results(search_cache, req.query, req.max_results,
                                            papers, clock, FALSE)
    /\ resp' = [status |-> 500, papers |-> <<>>, from_cache |-> FALSE]
    /\ pc' = "responded"
    /\ UNCHANGED <<auxVars, clock, papers_tbl, req, papers, page_num, page,
                   driver, calls, cached, stop, extracted, dbHist>>

\* scrape_papers raised: `except Exception` of search_papers answers 500
SearchFail ==
    /\ pc = "raised"
    /\ resp' = [status |-> 500, papers |-> <<>>, from_cache |-> FALSE]
    /\ pc' = "responded"
    /\ UNCHANGED <<auxVars, clock, search_cache, papers_tbl, req, papers, page_num, page,
                   driver, calls, cached, stop, extracted, dbHist>>

\* the response is sent: the request and everything it owned are gone
SearchClose ==
    /\ pc = "responded"
    /\ pc' = "idle"
    /\ req' = NoReq
    /\ papers' = <<>>
    /\ page_num' = 0
    /\ page' = NoPage
    /\ driver' = "none"
    /\ resp' = NoResp
    /\ calls' = <<>>
    /\ cached' = None
    /\ stop' = NoStop
    /\ extracted' = <<>>
    /\ ev' = <<>>
    /\ UNCHANGED <<ioVars, clock, search_cache, papers_tbl, dbHist>>

\* time passes
Tick ==
    /\ pc = "idle"
    /\ clock + TickHours <= MaxClock
    /\ clock' = clock + TickHours
    /\ UNCHANGED <<auxVars, search_cache, papers_tbl, svcVars, dbcall, putlog, savelog>>

ScrapeStep ==
    \/ \E outcome \in {"driver_error", "submit_error"} : ScrapeStartFail(outcome)
    \/ \E pg \in Pages : ScrapeStart(pg)
    \/ LoopExit
    \/ PageTimeout
    \/ PageCaptcha
    \/ \E next \in NextStates : PageExtractStop(next)
    \/ \E pg \in Pages : PageExtractNext(pg)
    \/ \E err \in BOOLEAN : SearchFinish(err)
    \/ SearchFail

Next ==
    \/ \E q \in Queries, n \in Sizes, err \in BOOLEAN : SearchRequest(q, n, err)
    \/ ScrapeStep
    \/ SearchClose
    \/ Tick

Spec == Init /\ [][Next]_vars

-----------------------------------------------------------------------------
(* The Database methods called directly, in any order, by a client of the  *)
(* store (get_cached_search, cache_search_results, save_paper)             *)

\* "X" and " x" normalize to the same text
StoreQueries == { <<"X">>, <<" ", "x">> }

StoreSizes == {1, 2}

\* a block with the title of BlockA and other authors, citations and links
BlockA2 ==
    [title_a |-> Some([text |-> <<" ", "t", "1">>, href |-> "u3"]),
     gs_a |-> Some(<< <<"D">>, <<"1", "9", "9", "9">> >>),
     gs_rs |-> Some(<<"r">>),
     cited_by |-> Some(<<"C", "i", "t", "e", "d", " ", "b", "y", " ", "7">>),
     pdf_a |-> Some("p1")]

\* the papers the extractor makes of the complete blocks at time now
PapersAt(now) == { extract_paper_data(b, now)[1] : b \in {BlockA, BlockA2, BlockB} }

\* result lists to cache: none, one paper, two papers
ResultLists ==
    LET a == extract_paper_data(BlockA, 0)[1]
        b == extract_paper_data(BlockB, 0)[1]
    IN  { <<>>, <<a>>, <<b, a>> }

\* a function with one more (or one changed) entry
Put(f, k, v) == [x \in DOMAIN f \cup {k} |-> IF x = k THEN v ELSE f[x]]

\* a client calls cache_search_results
CachePut(q, n, results, err) ==
    LET h == generate_query_hash(q, n)
    IN  /\ search_cache' = cache_search_results(search_cache, q, n, results, clock, err)
        /\ dbcall' = [op |-> "put", key |-> h, err |-> err, ret |-> None, at |-> clock]
        /\ putlog' = IF err THEN putlog
                     ELSE Put(putlog, h,
                              [results |-> results, at |-> clock,
                               replaced |-> h \in DOMAIN putlog
                                            /\ putlog[h].results # results])
        /\ UNCHANGED <<auxVars, clock, papers_tbl, svcVars, savelog>>

\* a faulty variant: the lookup also deletes the rows that have expired
CacheGetSweeps(q, n, err) ==
    LET Fresh(r) == r.created_at + cache_hours > clock
    IN  /\ dbcall' = [op |-> "get", key |-> generate_query_hash(q, n), err |-> err,
                      ret |-> get_cached_search(search_cache, q, n, clock, err),
                      at |-> clock]
        /\ search_cache' = IF err THEN search_cache ELSE SelectSeq(search_cache, Fresh)
        /\ UNCHANGED <<auxVars, clock, papers_tbl, svcVars, putlog, savelog>>

\* a client calls get_cached_search
CacheGet(q, n, err) ==
    /\ dbcall' = [op |-> "get", key |-> generate_query_hash(q, n), err |-> err,
                  ret |-> get_cached_search(search_cache, q, n, clock, err),
                  at |-> clock]
    /\ UNCHANGED <<auxVars, clock, search_cache, papers_tbl, svcVars, putlog, savelog>>

\* a client calls save_paper
SavePaper(paper_data, err) ==
    /\ papers_tbl' = save_paper(papers_tbl, paper_data, clock, err)
    /\ dbcall' = [op |-> "save", key |-> paper_data.id, err |-> err, ret |-> None,
                  at |-> clock]
    /\ savelog' = IF err THEN savelog
                  ELSE Put(savelog, paper_data.id,
                           [paper |-> paper_data, at |-> clock,
                            replaced |-> paper_data.id \in DOMAIN savelog
                                         /\ savelog[paper_data.id].paper # paper_data])
    /\ UNCHANGED <<auxVars, clock, search_cache, svcVars, putlog>>

CacheNext ==
    \/ \E q \in StoreQueries, n \in StoreSizes, results \in ResultLists, err \in BOOLEAN :
          CachePut(q, n, results, err)
    \/ \E q \in StoreQueries, n \in StoreSizes, err \in BOOLEAN : CacheGet(q, n, err)
    \/ Tick

CacheSpec == Init /\ [][CacheNext]_vars

\* hours in a day, for datetime('now', '-{} days')
HoursPerDay == 24

\* a faulty variant: the age limit is taken in hours
cleanup_old_cache_hours(tbl, days, now, err) ==
    IF err THEN [tbl |-> tbl, ret |-> 0]
    ELSE LET Kept(r) == ~(r.created_at < now - days)
             kept == SelectSeq(tbl, Kept)
         IN  [tbl |-> kept, ret |-> Len(tbl) - Len(kept)]

\* cleanup_old_cache(days=7) at time now: the table after and the value
\* returned (the number of rows deleted, 0 when the statement fails)
cleanup_old_cache(tbl, days, now, err) ==
    IF err THEN [tbl |-> tbl, ret |-> 0]
    ELSE LET Kept(r) == ~(r.created_at < now - days * HoursPerDay)
             kept == SelectSeq(tbl, Kept)
         IN  [tbl |-> kept, ret |-> Len(tbl) - Len(kept)]

\* the days arguments of cleanup_old_cache: the default and two shorter ones
CleanupDays == { 0, 1, 7 }

\* a client calls cleanup_old_cache
CacheCleanup(days, err) ==
    LET out == cleanup_old_cache(search_cache, days, clock, err)
    IN  /\ search_cache' = out.tbl
        /\ dbcall' = [op |-> "cleanup", key |-> None, err |-> err, ret |-> out.ret,
                      at |-> clock, days |-> days]
        /\ UNCHANGED <<auxVars, clock, papers_tbl, svcVars, putlog, savelog>>

\* the result lists cached between cleanups: none and one paper
CleanupResults == { results \in ResultLists : Len(results) <= 1 }

CleanupNext ==
    \/ \E q \in StoreQueries, n \in StoreSizes, results \in CleanupResults, err \in BOOLEAN :
          CachePut(q, n, results, err)
    \/ \E q \in StoreQueries, n \in StoreSizes, err \in BOOLEAN : CacheGet(q, n, err)
    \/ \E days \in CleanupDays, err \in BOOLEAN : CacheCleanup(days, err)
    \/ Tick

CleanupSpec == Init /\ [][CleanupNext]_vars

PapersNext ==
    \/ \E paper_data \in PapersAt(clock), err \in BOOLEAN : SavePaper(paper_data, err)
    \/ Tick

PapersSpec == Init /\ [][PapersNext]_vars

-----------------------------------------------------------------------------
(* Artifact Fetcher: EnhancedScholarScraper.download_pdf_if_available and   *)
(* POST /api/download-pdf/<paper_id>                                        *)
(*                                                                         *)
(* net is what the network and the file system do to one call:             *)
(*   error         session.get raises (connection error, timeout)          *)
(*   status        the status of the response requests hands back; it      *)
(*                 follows redirects, so a 3xx here is one without a       *)
(*                 Location to follow                                      *)
(*   content_type  the Content-Type header, None when there is none        *)
(*   content       the body                                                *)
(*   write         "ok", "open_error" (open raises, nothing is created) or *)
(*                 "write_error" (the file is created or truncated by      *)
(*                 open, then f.write raises)                              *)

\* sub in s
Contains(s, sub) ==
    \E i \in 1..(Len(s) - Len(sub) + 1) : SubSeq(s, i, i + Len(sub) - 1) = sub

\* response.raise_for_status() raises HTTPError: a 4xx or 5xx status
RaisesForStatus(status) == status >= 400 /\ status < 600

\* f"{paper_id}.pdf", the name of the file in papers_dir
FileName(paper_id) == paper_id \o <<".", "p", "d", "f">>

\* what open(filepath, 'wb') leaves when the write fails
Truncated == "truncated"

\* a function without the entry of k
Without(f, k) == [x \in DOMAIN f \ {k} |-> f[x]]

\* 'pdf' in content_type.lower()
DeclaresPdf(net) ==
    LET content_type == IF net.content_type = None THEN <<>> ELSE net.content_type[1]
    IN  Contains(Lower(content_type), <<"p", "d", "f">>)

\* a faulty variant: an error of session.get is not caught
download_pdf_if_available_raises(fs, pdf_url, paper_id, net) ==
    IF pdf_url = "" THEN [gets |-> 0, raised |-> FALSE, ret |-> None, files |-> fs]
    ELSE IF net.error THEN [gets |-> 1, raised |-> TRUE, ret |-> None, files |-> fs]
    ELSE IF RaisesForStatus(net.status) \/ ~DeclaresPdf(net)
         THEN [gets |-> 1, raised |-> FALSE, ret |-> None, files |-> fs]
    ELSE CASE net.write = "open_error" ->
                [gets |-> 1, raised |-> FALSE, ret |-> None, files |-> fs]
           [] net.write = "write_error" ->
                [gets |-> 1, raised |-> FALSE, ret |-> None,
                 files |-> Put(fs, FileName(paper_id), Truncated)]
           [] OTHER ->
                [gets |-> 1, raised |-> FALSE, ret |-> Some(FileName(paper_id)),
                 files |-> Put(fs, FileName(paper_id), net.content)]

\* a faulty variant: the file is named after the URL
download_pdf_if_available_by_url(fs, pdf_url, paper_id, net) ==
    IF pdf_url = "" THEN [gets |-> 0, raised |-> FALSE, ret |-> None, files |-> fs]
    ELSE IF net.error \/ RaisesForStatus(net.status) \/ ~DeclaresPdf(net)
         THEN [gets |-> 1, raised |-> FALSE, ret |-> None, files |-> fs]
    ELSE CASE net.write = "open_error" ->
                [gets |-> 1, raised |-> FALSE, ret |-> None, files |-> fs]
           [] net.write = "write_error" ->
                [gets |-> 1, raised |-> FALSE, ret |-> None,
                 files |-> Put(fs, FileName(<<pdf_url>>), Truncated)]
           [] OTHER ->
                [gets |-> 1, raised |-> FALSE, ret |-> Some(FileName(<<pdf_url>>)),
                 files |-> Put(fs, FileName(<<pdf_url>>), net.content)]

\* a faulty variant: a GET that met a network error is issued a second time
download_pdf_if_available_retrying(fs, pdf_url, paper_id, net) ==
    IF pdf_url = "" THEN [gets |-> 0, raised |-> FALSE, ret |-> None, files |-> fs]
    ELSE IF net.error THEN [gets |-> 2, raised |-> FALSE, ret |-> None, files |-> fs]
    ELSE IF RaisesForStatus(net.status) \/ ~DeclaresPdf(net)
         THEN [gets |-> 1, raised |-> FALSE, ret |-> None, files |-> fs]
    ELSE CASE net.write = "open_error" ->
                [gets |-> 1, raised |-> FALSE, ret |-> None, files |-> fs]
           [] net.write = "write_error" ->
                [gets |-> 1, raised |-> FALSE, ret |-> None,
                 files |-> Put(fs, FileName(paper_id), Truncated)]
           [] OTHER ->
                [gets |-> 1, raised |-> FALSE, ret |-> Some(FileName(paper_id)),
                 files |-> Put(fs, FileName(paper_id), net.content)]

\* download_pdf_if_available(pdf_url, paper_id): how many times it called
\* session.get, whether it raised, what it
\* returned (Some(filepath) or None) and papers_dir after
download_pdf_if_available(fs, pdf_url, paper_id, net) ==
    IF pdf_url = "" THEN [gets |-> 0, raised |-> FALSE, ret |-> None, files |-> fs]
    ELSE IF net.error \/ RaisesForStatus(net.status) \/ ~DeclaresPdf(net)
         THEN [gets |-> 1, raised |-> FALSE, ret |-> None, files |-> fs]
    ELSE CASE net.write = "open_error" ->
                [gets |-> 1, raised |-> FALSE, ret |-> None, files |-> fs]
           [] net.write = "write_error" ->
                [gets |-> 1, raised |-> FALSE, ret |-> None,
                 files |-> Put(fs, FileName(paper_id), Truncated)]
           [] OTHER ->
                [gets |-> 1, raised |-> FALSE, ret |-> Some(FileName(paper_id)),
                 files |-> Put(fs, FileName(paper_id), net.content)]

PaperIds == { <<"a">>, <<"b">> }

\* request bodies' pdf_url: absent or empty, two URLs
PdfUrls == { "", "p1", "p2" }

\* Content-Type headers that name PDF, in lower and in upper case
PdfTypes ==
    { Some(<<"a", "p", "p", "l", "i", "c", "a", "t", "i", "o", "n", "/", "p", "d", "f">>),
      Some(<<"a", "p", "p", "l", "i", "c", "a", "t", "i", "o", "n", "/", "P", "D", "F">>) }

\* no Content-Type header, and text/html
OtherTypes == { None, Some(<<"t", "e", "x", "t", "/", "h", "t", "m", "l">>) }

\* no answer; an error status; a 200 or a 300 that does not declare a PDF; a 200
\* that declares one, with either body and every outcome of the write; a 300
\* that declares one
NetOutcomes ==
    { NoNet }
    \cup [error : {FALSE}, status : {404, 500}, content_type : PdfTypes,
          content : {"c1"}, write : {"ok"}]
    \cup [error : {FALSE}, status : {200, 300}, content_type : OtherTypes,
          content : {"c1"}, write : {"ok"}]
    \cup [error : {FALSE}, status : {200}, content_type : PdfTypes,
          content : {"c1", "c2"}, write : {"ok", "open_error", "write_error"}]
    \cup [error : {FALSE}, status : {300}, content_type : PdfTypes,
          content : {"c2"}, write : {"ok"}]

\* POST /api/download-pdf/<paper_id>: download_pdf
DownloadPdf(paper_id, pdf_url, net) ==
    /\ IF pdf_url = ""
       THEN /\ dl' = [paper_id |-> paper_id, pdf_url |-> pdf_url, net |-> NoNet,
                      called |-> FALSE, gets |-> 0, raised |-> FALSE,
                      filepath |-> None, status |-> 400, before |-> files, latest |-> dl.latest]
            /\ files' = files
       ELSE LET r == download_pdf_if_available(files, pdf_url, paper_id, net)
            IN  /\ files' = r.files
                /\ dl' = [paper_id |-> paper_id, pdf_url |-> pdf_url, net |-> net,
                          called |-> TRUE, gets |-> r.gets, raised |-> r.raised,
                          filepath |-> r.ret,
                          status |-> IF r.raised THEN 500
                                     ELSE IF r.ret # None THEN 200 ELSE 400,
                          before |-> files,
                          latest |-> IF r.ret # None
                                     THEN Put(dl.latest, paper_id, net.content)
                                     ELSE IF r.files # files
                                          THEN Without(dl.latest, paper_id)
                                          ELSE dl.latest]
    /\ UNCHANGED <<clock, search_cache, papers_tbl, svcVars, dbcall, putlog, savelog, fn, ev, th>>

FetchNext ==
    \E paper_id \in PaperIds, pdf_url \in PdfUrls, net \in NetOutcomes :
        DownloadPdf(paper_id, pdf_url, net)

FetchSpec == Init /\ [][FetchNext]_vars

-----------------------------------------------------------------------------
(* Functions called directly, two calls at a time *)

\* the history after one more call
Apply(rec) == IF fn = <<>> THEN <<rec>> ELSE <<fn[Len(fn)], rec>>

\* queries that differ in case, in surrounding and inner whitespace, in text,
\* and one that holds the separator
HashQueries ==
    { <<"x">>, <<"X">>, <<" ", "x">>, <<"X", " ">>, <<"y">>, <<"x", " ", "y">>,
      <<"x", "_", "1">> }

HashSizes == {1, 2, 12}

\* a call of _generate_query_hash
HashCall(q, n) ==
    /\ fn' = Apply([op |-> "hash", query |-> q, max_results |-> n,
                    ret |-> generate_query_hash(q, n)])
    /\ UNCHANGED <<clock, search_cache, papers_tbl, svcVars, dbcall, putlog, savelog,
                   files, dl, ev, th>>

\* a block whose detail line holds a volume number before the year 1999
BlockVolume ==
    [title_a |-> Some([text |-> <<"t", "3">>, href |-> "u4"]),
     gs_a |-> Some(<< <<"E">>, <<"J", " ", "1", "2", ",", " ", "1", "9", "9", "9">>,
                      <<"x">> >>),
     gs_rs |-> Some(<<"s">>),
     cited_by |-> None,
     pdf_a |-> None]

\* a block whose detail line holds the year 1999 and a digit in a later segment
BlockLateDigit ==
    [title_a |-> Some([text |-> <<"t", "4">>, href |-> "u5"]),
     gs_a |-> Some(<< <<"F">>, <<"J", " ", "1", "9", "9", "9">>, <<"s", "2">> >>),
     gs_rs |-> Some(<<"s">>),
     cited_by |-> None,
     pdf_a |-> None]

\* a block whose detail line holds two years of this century
BlockTwoYears ==
    [title_a |-> Some([text |-> <<"t", "5">>, href |-> "u6"]),
     gs_a |-> Some(<< <<"G", " ", "2", "0", "1", "9">>, <<"2", "0", "2", "1">> >>),
     gs_rs |-> Some(<<"s">>),
     cited_by |-> Some(<<"C", "i", "t", "e", "d", " ", "b", "y", " ", "0">>),
     pdf_a |-> None]

\* a block whose 'Cited by' link holds no number
BlockCitedNoNumber ==
    [title_a |-> Some([text |-> <<"t", "6">>, href |-> "u7"]),
     gs_a |-> Some(<< <<"H">> >>),
     gs_rs |-> Some(<<"s">>),
     cited_by |-> Some(<<"C", "i", "t", "e", "d", " ", "b", "y">>),
     pdf_a |-> None]

\* a block with a title link and a detail line and no snippet element (.gs_rs)
BlockNoSnippet ==
    [title_a |-> Some([text |-> <<"t", "7">>, href |-> "u8"]),
     gs_a |-> Some(<< <<"K">>, <<"2", "0", "2", "2">> >>),
     gs_rs |-> None,
     cited_by |-> Some(<<"C", "i", "t", "e", "d", " ", "b", "y", " ", "3">>),
     pdf_a |-> None]

ExtractBlocks ==
    { BlockA, BlockA2, BlockB, BlockBad, BlockVolume, BlockLateDigit, BlockTwoYears,
      BlockCitedNoNumber, BlockNoSnippet }

\* a call of _extract_paper_data
ExtractCall(b) ==
    /\ fn' = Apply([op |-> "extract", block |-> b, at |-> clock,
                    ret |-> extract_paper_data(b, clock)])
    /\ UNCHANGED <<clock, search_cache, papers_tbl, svcVars, dbcall, putlog, savelog,
                   files, dl, ev, th>>

ExtractNext ==
    \/ \E b \in ExtractBlocks : ExtractCall(b)
    \/ Tick

ExtractSpec == Init /\ [][ExtractNext]_vars

\* the longest list of .gs_ri blocks on a page of the page-loop calls
MaxBlocks == 3

\* the blocks of those pages: two that extract and one without a title link
LoopBlocks == { BlockA, BlockB, BlockBad }

RECURSIVE SeqsUpTo(_, _)
\* the sequences over S of length at most n
SeqsUpTo(S, n) ==
    IF n = 0 THEN { <<>> }
    ELSE LET shorter == SeqsUpTo(S, n - 1)
         IN  shorter \cup { Append(t, x) : t \in { u \in shorter : Len(u) = n - 1 },
                                           x \in S }

\* the papers of earlier pages when the for loop starts
EarlierPapers == { <<>>, <<extract_paper_data(BlockVolume, 0)[1]>> }

\* the max_results of the page-loop calls
LoopSizes == 1..3

\* one run of the for loop over the blocks of a page; the while condition
\* len(papers) < max_results held when the iteration began
PageLoopCall(ps, blocks, n) ==
    /\ Len(ps) < n
    /\ fn' = <<[op |-> "page", before |-> ps, blocks |-> blocks, max_results |-> n,
                at |-> clock, ret |-> ExtractPage(ps, blocks, n, clock)]>>
    /\ UNCHANGED <<clock, search_cache, papers_tbl, svcVars, dbcall, putlog, savelog,
                   files, dl, ev, th>>

PageLoopNext ==
    \E ps \in EarlierPapers, blocks \in SeqsUpTo(LoopBlocks, MaxBlocks), n \in LoopSizes :
        PageLoopCall(ps, blocks, n)

PageLoopSpec == Init /\ [][PageLoopNext]_vars

\* captcha_elements: the XPath lookups of _detect_captcha, in list order
captcha_elements == <<"g-recaptcha", "recaptcha-iframe", "unusual traffic">>

\* a faulty variant: a lookup that raises is skipped and the next one is made
RECURSIVE detect_captcha_lookups_skipping(_, _, _)
detect_captcha_lookups_skipping(dom, raises_at, k) ==
    IF k > Len(captcha_elements) THEN [ret |-> FALSE, matched |-> None, lookups |-> k - 1]
    ELSE IF raises_at # k /\ captcha_elements[k] \in dom
         THEN [ret |-> TRUE, matched |-> Some(captcha_elements[k]), lookups |-> k]
         ELSE detect_captcha_lookups_skipping(dom, raises_at, k + 1)

\* the for loop of _detect_captcha from the k-th lookup on, on a page whose
\* markers are dom; the raises_at-th driver.find_elements raises (0: none does),
\* and the bare except answers False
RECURSIVE detect_captcha_lookups(_, _, _)
detect_captcha_lookups(dom, raises_at, k) ==
    IF k > Len(captcha_elements) THEN [ret |-> FALSE, matched |-> None, lookups |-> k - 1]
    ELSE IF raises_at = k THEN [ret |-> FALSE, matched |-> None, lookups |-> k]
    ELSE IF captcha_elements[k] \in dom
         THEN [ret |-> TRUE, matched |-> Some(captcha_elements[k]), lookups |-> k]
         ELSE detect_captcha_lookups(dom, raises_at, k + 1)

\* the markers a page can hold
Doms == SUBSET { captcha_elements[k] : k \in 1..Len(captcha_elements) }

\* which driver.find_elements raises
RaisesAt == 0..Len(captcha_elements)

\* a call of _detect_captcha; every driver call it makes is a find_elements
DetectCall(dom, raises_at) ==
    LET out == detect_captcha_lookups(dom, raises_at, 1)
    IN  /\ fn' = Apply([op |-> "detect", dom |-> dom, raises_at |-> raises_at,
                        ret |-> out.ret, matched |-> out.matched,
                        driver_calls |-> [k \in 1..out.lookups |-> "find_elements"]])
        /\ UNCHANGED <<clock, search_cache, papers_tbl, svcVars, dbcall, putlog,
                       savelog, files, dl, ev, th>>

DetectNext == \E dom \in Doms, raises_at \in RaisesAt : DetectCall(dom, raises_at)

DetectSpec == Init /\ [][DetectNext]_vars

\* how _setup_driver ends: it returns a driver, it raises before
\* webdriver.Chrome has started a browser, or stealth(driver, ...) raises after
\* the browser was started
SetupOutcomes == { "ok", "raises_before_start", "raises_after_start" }

\* what happens on the paper's page: driver.get raises, a lookup raises an
\* exception other than NoSuchElementException, a selector finds a non-blank
\* abstract, no selector does
BodyOutcomes == { "get_raises", "lookup_raises", "abstract", "none" }

PaperUrls == { "u1", "u2" }

\* extract_abstract_from_link(paper_url): `driver` is first assigned inside the
\* try, so after a raising _setup_driver the name is unbound when the finally
\* clause reads it, and the UnboundLocalError replaces the pending return None
extract_abstract_from_link(paper_url, setup, body) ==
    IF setup # "ok"
    THEN [raised |-> Some("UnboundLocalError"), ret |-> None,
          started |-> IF setup = "raises_after_start" THEN 1 ELSE 0,
          quits |-> 0]
    ELSE [raised |-> None,
          ret |-> IF body = "abstract" THEN Some(<<"a", paper_url>>) ELSE None,
          started |-> 1,
          quits |-> 1]

\* a call of extract_abstract_from_link
AbstractCall(paper_url, setup, body) ==
    LET out == extract_abstract_from_link(paper_url, setup, body)
    IN  /\ fn' = Apply([op |-> "abstract", paper_url |-> paper_url, setup |-> setup,
                        body |-> body, raised |-> out.raised, ret |-> out.ret,
                        started |-> out.started, quits |-> out.quits])
        /\ UNCHANGED <<clock, search_cache, papers_tbl, svcVars, dbcall, putlog,
                       savelog, files, dl, ev, th>>

AbstractNext ==
    \E paper_url \in PaperUrls, setup \in SetupOutcomes, body \in BodyOutcomes :
        AbstractCall(paper_url, setup, body)

AbstractSpec == Init /\ [][AbstractNext]_vars

-----------------------------------------------------------------------------
(* Two /api/search requests served at the same time (Flask serves each request
   on its own thread; scholar_scraper and db are module-level objects) *)

\* the request threads
Threads == {1, 2}

\* the queries of the two requests: different texts
ConcQuery(t) == IF t = 1 THEN <<"X">> ELSE <<"Y">>

\* the result block the site answers each query with
ConcBlock(t) == IF t = 1 THEN BlockA ELSE BlockB

\* the pages the browser of thread t can load: its block, a failing block before
\* it, a page that never renders, a page with a challenge marker
ConcPages(t) ==
    { [blocks |-> <<ConcBlock(t)>>, captcha |-> FALSE],
      [blocks |-> <<BlockBad, ConcBlock(t)>>, captcha |-> FALSE],
      [blocks |-> <<>>, captcha |-> FALSE],
      [blocks |-> <<ConcBlock(t)>>, captcha |-> TRUE] }

\* what follows the for loop of an iteration: no "Next" control, a click that
\* raises, or the next page
ConcNexts(t) ==
    { [to |-> "absent", page |-> NoPage], [to |-> "stale", page |-> NoPage] }
    \cup { [to |-> "page", page |-> pg] : pg \in ConcPages(t) }

\* the locals of a request thread with some of them changed
With(t, changes) ==
    [th EXCEPT ![t] = [k \in DOMAIN th[t] |->
                          IF k \in DOMAIN changes THEN changes[k] ELSE th[t][k]]]

\* thread t is at this position of search_papers / scrape_papers
At(t, where) == t \in DOMAIN th /\ th[t].pc = where

\* what no request thread touches
ConcFrame == UNCHANGED <<clock, papers_tbl, svcVars, dbcall, putlog, savelog, files, dl,
                         fn, ev>>

\* search_papers on thread t up to the call of scrape_papers
ConcSearchRequest(t, err) ==
    /\ t \notin DOMAIN th
    /\ LET cached_results == get_cached_search(search_cache, ConcQuery(t), MaxResults,
                                               clock, err)
       IN  th' = Put(th, t,
                     [pc |-> IF Truthy(cached_results) THEN "responded" ELSE "setup",
                      papers |-> <<>>, page |-> NoPage, page_num |-> 0,
                      driver |-> "none", seen |-> <<>>,
                      resp |-> IF Truthy(cached_results)
                               THEN [status |-> 200, papers |-> cached_results[1],
                                     from_cache |-> TRUE]
                               ELSE NoResp])
    /\ UNCHANGED search_cache
    /\ ConcFrame

\* scrape_papers on thread t: _setup_driver or the search box wait raises
ConcScrapeStartFail(t) ==
    /\ At(t, "setup")
    /\ th' = With(t, [pc |-> "raised"])
    /\ UNCHANGED search_cache
    /\ ConcFrame

\* scrape_papers on thread t: its own driver is started and loads the first page
ConcScrapeStart(t, pg) ==
    /\ At(t, "setup")
    /\ th' = With(t, [pc |-> "loop", driver |-> "open", page |-> pg])
    /\ UNCHANGED search_cache
    /\ ConcFrame

\* the while condition of thread t is false
ConcLoopExit(t) ==
    /\ At(t, "loop")
    /\ ~(Len(th[t].papers) < MaxResults)
    /\ th' = With(t, [pc |-> "returned", driver |-> "quit", page |-> NoPage])
    /\ UNCHANGED search_cache
    /\ ConcFrame

\* the results wait of thread t raises
ConcPageTimeout(t) ==
    /\ At(t, "loop")
    /\ Len(th[t].papers) < MaxResults
    /\ th[t].page.blocks = <<>>
    /\ th' = With(t, [pc |-> "raised", driver |-> "quit", page |-> NoPage])
    /\ UNCHANGED search_cache
    /\ ConcFrame

\* thread t finds a challenge on its page
ConcPageCaptcha(t) ==
    /\ At(t, "loop")
    /\ Len(th[t].papers) < MaxResults
    /\ th[t].page.blocks # <<>>
    /\ detect_captcha(th[t].page)
    /\ th' = With(t, [pc |-> "returned", driver |-> "quit", page |-> NoPage])
    /\ UNCHANGED search_cache
    /\ ConcFrame

\* a faulty variant: the list of papers is an attribute of the shared scraper
\* object, so what one thread appends is in the list of every thread
ConcPageExtractShared(t, next) ==
    /\ At(t, "loop")
    /\ Len(th[t].papers) < MaxResults
    /\ th[t].page.blocks # <<>>
    /\ ~detect_captcha(th[t].page)
    /\ LET ps == ExtractPage(th[t].papers, th[t].page.blocks, MaxResults, clock)
           mine == With(t, [seen |-> th[t].seen \o th[t].page.blocks,
                            pc |-> IF next.to = "absent" THEN "returned"
                                   ELSE IF next.to = "stale" THEN "raised" ELSE "loop",
                            driver |-> IF next.to = "page" THEN "open" ELSE "quit",
                            page |-> next.page,
                            page_num |-> IF next.to = "page"
                                         THEN NextPageNum(th[t].page_num)
                                         ELSE th[t].page_num])
       IN  th' = [u \in DOMAIN th |->
                     [k \in DOMAIN mine[u] |-> IF k = "papers" THEN ps ELSE mine[u][k]]]
    /\ UNCHANGED search_cache
    /\ ConcFrame

\* one iteration of thread t that extracts its page into its local list `papers`
\* and then finds no "Next" (break), a click that raises, or the next page
ConcPageExtract(t, next) ==
    /\ At(t, "loop")
    /\ Len(th[t].papers) < MaxResults
    /\ th[t].page.blocks # <<>>
    /\ ~detect_captcha(th[t].page)
    /\ th' = With(t, [papers |-> ExtractPage(th[t].papers, th[t].page.blocks,
                                             MaxResults, clock),
                      seen |-> th[t].seen \o th[t].page.blocks,
                      pc |-> IF next.to = "absent" THEN "returned"
                             ELSE IF next.to = "stale" THEN "raised" ELSE "loop",
                      driver |-> IF next.to = "page" THEN "open" ELSE "quit",
                      page |-> next.page,
                      page_num |-> IF next.to = "page" THEN NextPageNum(th[t].page_num)
                                   ELSE th[t].page_num])
    /\ UNCHANGED search_cache
    /\ ConcFrame

\* scrape_papers returned on thread t: cache_search_results, then the response
ConcSearchFinish(t, err) ==
    /\ At(t, "returned")
    /\ search_cache' = cache_search_results(search_cache, ConcQuery(t), MaxResults,
                                            th[t].papers, clock, err)
    /\ th' = With(t, [pc |-> "responded",
                      resp |-> [status |-> 200, papers |-> th[t].papers,
                                from_cache |-> FALSE]])
    /\ ConcFrame

\* scrape_papers raised on thread t: 500
ConcSearchFail(t) ==
    /\ At(t, "raised")
    /\ th' = With(t, [pc |-> "responded",
                      resp |-> [status |-> 500, papers |-> <<>>, from_cache |-> FALSE]])
    /\ UNCHANGED search_cache
    /\ ConcFrame

ConcSearchNext ==
    \E t \in Threads :
        \/ \E err \in BOOLEAN : ConcSearchRequest(t, err)
        \/ ConcScrapeStartFail(t)
        \/ \E pg \in ConcPages(t) : ConcScrapeStart(t, pg)
        \/ ConcLoopExit(t)
        \/ ConcPageTimeout(t)
        \/ ConcPageCaptcha(t)
        \/ \E next \in ConcNexts(t) : ConcPageExtract(t, next)
        \/ \E err \in BOOLEAN : ConcSearchFinish(t, err)
        \/ ConcSearchFail(t)

ConcSearchSpec == Init /\ [][ConcSearchNext]_vars

-----------------------------------------------------------------------------
(* cache_search_results and get_cached_search called at the same time on one
   key.  Each call opens its own sqlite3 connection: the INSERT OR REPLACE of a
   connection is private to it until conn.commit(), one connection at a time
   holds the write lock, and a SELECT reads the committed table. *)

\* the query of the calls: one key
KeyQuery == <<"X">>

\* the lists put: one paper, two papers
KeyResults == { results \in ResultLists : results # <<>> }

\* thread t has no call in progress
Free(t) == IF t \in DOMAIN th THEN th[t].pc = "done" ELSE TRUE

\* a connection has executed its INSERT and not yet committed
WriteLocked == \E u \in DOMAIN th : th[u].pc = "written"

\* what no store call touches
KeyFrame == UNCHANGED <<clock, papers_tbl, svcVars, dbcall, putlog, savelog, files, dl, ev>>

\* cache_search_results on thread t up to sqlite3.connect: the hash and the JSON
\* text are computed
KeyPutBegin(t, results) ==
    /\ Free(t)
    /\ th' = Put(th, t, [op |-> "put", pc |-> "prepared", results |-> results,
                         at |-> clock, ret |-> None])
    /\ fn' = IF \E k \in 1..Len(fn) : fn[k].results = results THEN fn
             ELSE Append(fn, [op |-> "put", results |-> results])
    /\ UNCHANGED search_cache
    /\ KeyFrame

\* cursor.execute(INSERT OR REPLACE ...): the connection takes the write lock
\* and holds the new row (created_at is CURRENT_TIMESTAMP); when another
\* connection holds the lock until the busy timeout, the statement raises and
\* the except clause ends the call
KeyPutExecute(t) ==
    /\ t \in DOMAIN th /\ th[t].pc = "prepared"
    /\ th' = IF WriteLocked THEN With(t, [pc |-> "done"])
             ELSE With(t, [pc |-> "written", at |-> clock])
    /\ UNCHANGED <<search_cache, fn>>
    /\ KeyFrame

\* conn.commit(): the row replaces the committed row of its key, or the commit
\* raises and the connection rolls back
KeyPutCommit(t, err) ==
    /\ t \in DOMAIN th /\ th[t].pc = "written"
    /\ search_cache' = cache_search_results(search_cache, KeyQuery, MaxResults,
                                            th[t].results, th[t].at, err)
    /\ th' = With(t, [pc |-> "done"])
    /\ UNCHANGED fn
    /\ KeyFrame

\* get_cached_search on thread t: one SELECT on the committed table
KeyGet(t, err) ==
    /\ Free(t)
    /\ th' = Put(th, t, [op |-> "get", pc |-> "done", results |-> <<>>, at |-> clock,
                         ret |-> get_cached_search(search_cache, KeyQuery, MaxResults,
                                                   clock, err)])
    /\ UNCHANGED <<search_cache, fn>>
    /\ KeyFrame

KeyNext ==
    \/ \E t \in Threads :
          \/ \E results \in KeyResults : KeyPutBegin(t, results)
          \/ KeyPutExecute(t)
          \/ \E err \in BOOLEAN : KeyPutCommit(t, err)
          \/ \E err \in BOOLEAN : KeyGet(t, err)
    \/ Tick

KeySpec == Init /\ [][KeyNext]_vars

-----------------------------------------------------------------------------
(* search_papers with a year range *)

\* data.get('year_range', None): absent, or a pair of years
YearRanges == { None, Some(<<2020, 2021>>), Some(<<1990, 1999>>) }

\* what scrape_papers types into the search box: the query and, with a year
\* range, " after:<start> before:<end>"
SearchTerms(query, year_range) ==
    IF year_range # None
    THEN [query |-> query, after |-> Some(year_range[1][1]),
          before |-> Some(year_range[1][2])]
    ELSE [query |-> query, after |-> None, before |-> None]

\* how a run of scrape_papers ends: it raises, or it returns a list
Runs == { [raised |-> TRUE, papers |-> <<>>] }
        \cup { [raised |-> FALSE, papers |-> ps] : ps \in ResultLists }

\* search_papers as a whole: the response, the cache table after, and what was
\* typed into the search box (None when the scraper was not called)
search_papers(tbl, query, max_results, year_range, run, now) ==
    IF query = <<>>
    THEN [status |-> 400, papers |-> <<>>, from_cache |-> FALSE, tbl |-> tbl,
          typed |-> None, stored |-> FALSE]
    ELSE LET cached_results == get_cached_search(tbl, query, max_results, now, FALSE)
         IN  IF Truthy(cached_results)
             THEN [status |-> 200, papers |-> cached_results[1], from_cache |-> TRUE,
                   tbl |-> tbl, typed |-> None, stored |-> FALSE]
             ELSE IF run.raised
             THEN [status |-> 500, papers |-> <<>>, from_cache |-> FALSE, tbl |-> tbl,
                   typed |-> Some(SearchTerms(query, year_range)), stored |-> FALSE]
             ELSE [status |-> 200, papers |-> run.papers, from_cache |-> FALSE,
                   tbl |-> cache_search_results(tbl, query, max_results, run.papers,
                                                now, FALSE),
                   typed |-> Some(SearchTerms(query, year_range)), stored |-> TRUE]

\* POST /api/search with a year range; putlog keeps, per key, the search terms
\* of the run whose list the cache holds
YearSearch(q, n, year_range, run) ==
    LET out == search_papers(search_cache, q, n, year_range, run, clock)
        h == generate_query_hash(q, n)
    IN  /\ search_cache' = out.tbl
        /\ fn' = Apply([op |-> "search", query |-> q, max_results |-> n,
                        year_range |-> year_range, status |-> out.status,
                        papers |-> out.papers, from_cache |-> out.from_cache,
                        typed |-> out.typed, at |-> clock])
        /\ putlog' = IF out.stored
                     THEN Put(putlog, h, [results |-> out.papers, at |-> clock,
                                          replaced |-> h \in DOMAIN putlog,
                                          typed |-> out.typed[1]])
                     ELSE putlog
        /\ UNCHANGED <<clock, papers_tbl, svcVars, dbcall, savelog, files, dl, ev, th>>

YearNext ==
    \/ \E q \in Queries, n \in Sizes, year_range \in YearRanges, run \in Runs :
          YearSearch(q, n, year_range, run)
    \/ Tick

YearSpec == Init /\ [][YearNext]_vars

-----------------------------------------------------------------------------
(* Puts and Gets on one key over time; fn keeps the first and the latest Put
   the store accepted *)

\* a client calls cache_search_results for the key
TtlPut(results, err) ==
    /\ search_cache' = cache_search_results(search_cache, KeyQuery, MaxResults, results,
                                            clock, err)
    /\ dbcall' = [op |-> "put", key |-> generate_query_hash(KeyQuery, MaxResults),
                  err |-> err, ret |-> None, at |-> clock]
    /\ fn' = IF err THEN fn
             ELSE LET rec == [op |-> "put", results |-> results, at |-> clock]
                  IN  IF fn = <<>> THEN <<rec>> ELSE <<fn[1], rec>>
    /\ UNCHANGED <<clock, papers_tbl, svcVars, putlog, savelog, files, dl, ev, th>>

\* a client calls get_cached_search for the key
TtlGet(err) ==
    /\ dbcall' = [op |-> "get", key |-> generate_query_hash(KeyQuery, MaxResults),
                  err |-> err,
                  ret |-> get_cached_search(search_cache, KeyQuery, MaxResults, clock, err),
                  at |-> clock]
    /\ UNCHANGED <<clock, search_cache, papers_tbl, svcVars, putlog, savelog, files, dl,
                   fn, ev, th>>

TtlNext ==
    \/ \E results \in ResultLists, err \in BOOLEAN : TtlPut(results, err)
    \/ \E err \in BOOLEAN : TtlGet(err)
    \/ Tick

TtlSpec == Init /\ [][TtlNext]_vars

-----------------------------------------------------------------------------
(* Maintenance over days: cache_search_results, save_paper, cleanup_old_cache *)

\* the clock of the maintenance runs stops here (hours: 8 days)
MaxMaintClock == 192

\* and advances by this much (hours: 4 days)
MaintTickHours == 96

\* days pass
MaintTick ==
    /\ clock + MaintTickHours <= MaxMaintClock
    /\ clock' = clock + MaintTickHours
    /\ UNCHANGED <<auxVars, search_cache, papers_tbl, svcVars, dbcall, putlog, savelog>>

MaintNext ==
    \/ \E n \in StoreSizes, results \in CleanupResults :
          CachePut(KeyQuery, n, results, FALSE)
    \/ SavePaper(extract_paper_data(BlockA, 0)[1], FALSE)
    \/ \E days \in CleanupDays, err \in BOOLEAN : CacheCleanup(days, err)
    \/ MaintTick

MaintSpec == Init /\ [][MaintNext]_vars

HashNext == \E q \in HashQueries, n \in HashSizes : HashCall(q, n)

HashSpec == Init /\ [][HashNext]_vars

\* every step of a request in flight takes bounded time (each wait and each
\* sleep has a timeout), so a request that can step does step
FairSpec == Init /\ [][Next]_vars /\ WF_vars(ScrapeStep)

-----------------------------------------------------------------------------
(* Properties of the search pipeline *)

PapersOf(ex) == [i \in 1..Len(ex) |-> ex[i].paper]

HasCall(op) == \E i \in 1..Len(calls) : calls[i].op = op

\* the run of scrape_papers ended
RunEnded == pc \in {"returned", "raised", "responded"} /\ HasCall("scrape")

\* C1: a run of scrape_papers that has entered its page loop eventually leaves
\* it, by returning or by raising, whatever the pages hold and however many
\* pages there are.
C1_Terminates == (pc = "loop") ~> (pc \in {"returned", "raised"})

\* C2: at every moment of a run papers holds at most max_results papers, and so
\* does the list a run returns and the response that carries it.
C2_QuotaBound ==
    /\ pc \in {"setup", "loop", "returned", "raised"} => Len(papers) <= req.max_results
    /\ (pc = "responded" /\ resp.status = 200 /\ ~resp.from_cache)
          => Len(resp.papers) <= req.max_results

\* a run that met its quota on its second page
C2_Witness ==
    /\ pc = "returned"
    /\ stop.why = "quota"
    /\ Len(papers) = MaxResults
    /\ extracted[Len(extracted)].page = 2

\* C3: when a challenge is detected on page k >= 2 with the quota unmet, the run
\* returns exactly the papers extracted from pages 1..k-1, in order, and none
\* from page k.
C3_DetectionShortCircuit ==
    (RunEnded /\ stop.why = "captcha" /\ stop.page >= 2 /\ stop.page <= MaxPageNum)
       => /\ pc # "raised"
          /\ \A i \in 1..Len(extracted) : extracted[i].page < stop.page
          /\ \A i \in 1..(Len(extracted) - 1) : extracted[i].page <= extracted[i + 1].page
          /\ pc = "returned" => papers = PapersOf(extracted)
          /\ pc = "responded" =>
                (resp.status = 200 /\ resp.papers = PapersOf(extracted))

\* a challenge on page 2 after page 1 gave a paper
C3_Witness ==
    /\ pc = "responded"
    /\ stop = [why |-> "captcha", page |-> 2]
    /\ Len(extracted) >= 1
    /\ resp.papers = PapersOf(extracted)

C5_DistinctIds ==
    \A i, j \in 1..Len(papers) : i < j => papers[i].id # papers[j].id

\* the lookup of the request in flight found the store readable and an entry
\* written by the last stored scrape of the same query and max_results, younger
\* than the TTL
RepeatsFreshSearch ==
    /\ Len(calls) = 1
    /\ calls[1].op = "get"
    /\ ~calls[1].err
    /\ last.stored
    /\ req.query = last.query
    /\ req.max_results = last.max_results
    /\ calls[1].at < last.at + cache_hours

\* C7: a Search that repeats, within the TTL, a Search answered with
\* from_cache=false is answered from the cache with the same records, whatever
\* their number, and the scraper is not invoked.
C7_CacheHitOnRepeat ==
    (pc \in {"setup", "responded"} /\ RepeatsFreshSearch)
       => /\ pc = "responded"
          /\ resp.status = 200
          /\ resp.from_cache
          /\ resp.papers = last.papers

\* C8: the cache lookup comes before any scraper activity, the scraper runs only
\* on a miss (the lookup returned None), and a run that returns is followed by
\* the cache write under the same key, before the response.
C8_ReadWriteThrough ==
    /\ calls # <<>> => calls[1].op = "get"
    /\ HasCall("scrape") => cached = None
    /\ (pc = "responded" /\ resp.status = 200 /\ ~resp.from_cache) =>
          /\ Len(calls) = 3
          /\ calls[2].op = "scrape"
          /\ calls[3].op = "put"
          /\ ~calls[3].err =>
                \E i \in 1..Len(search_cache) :
                   /\ search_cache[i].query_hash =
                         generate_query_hash(req.query, req.max_results)
                   /\ JsonLoads(search_cache[i].results) = resp.papers

-----------------------------------------------------------------------------
(* Properties of the store *)

\* the call just made is a get_cached_search that met no store error, for a key
\* some cache_search_results has written
GetOfWritten ==
    /\ dbcall.op = "get"
    /\ ~dbcall.err
    /\ dbcall.key \in DOMAIN putlog

\* C6: with the store readable, a Get at the instant of the key's last Put
\* returns the list that Put was given, unchanged; a Get more than cache_hours
\* after the entry's creation returns None; and no Get returns an entry older
\* than cache_hours.
C6_CacheTTL ==
    /\ (GetOfWritten /\ dbcall.at = putlog[dbcall.key].at)
          => dbcall.ret = Some(putlog[dbcall.key].results)
    /\ (GetOfWritten /\ dbcall.at > putlog[dbcall.key].at + cache_hours)
          => dbcall.ret = None
    /\ (dbcall.op = "get" /\ dbcall.ret # None)
          => /\ dbcall.key \in DOMAIN putlog
             /\ dbcall.at - putlog[dbcall.key].at <= cache_hours
             /\ dbcall.ret = Some(putlog[dbcall.key].results)

\* a Get of a written, nonempty entry older than cache_hours, which returned None
C6_Witness ==
    /\ GetOfWritten
    /\ putlog[dbcall.key].results # <<>>
    /\ dbcall.at > putlog[dbcall.key].at + cache_hours
    /\ dbcall.ret = None

\* C10: the search cache never holds two rows of one query_hash, it holds the
\* row of the last Put of every key written, and a Get within the TTL, the
\* store readable, returns exactly the list of the last Put of its key.
C10_PutOverwrites ==
    /\ \A i, j \in 1..Len(search_cache) :
          i < j => search_cache[i].query_hash # search_cache[j].query_hash
    /\ \A h \in DOMAIN putlog :
          \E i \in 1..Len(search_cache) :
             /\ search_cache[i].query_hash = h
             /\ JsonLoads(search_cache[i].results) = putlog[h].results
             /\ search_cache[i].created_at = putlog[h].at
    /\ (GetOfWritten /\ dbcall.at < putlog[dbcall.key].at + cache_hours)
          => dbcall.ret = Some(putlog[dbcall.key].results)

\* a Get, after the clock moved, of a key whose last Put replaced another list
C10_Witness ==
    /\ GetOfWritten
    /\ putlog[dbcall.key].replaced
    /\ dbcall.at > putlog[dbcall.key].at
    /\ dbcall.ret = Some(putlog[dbcall.key].results)
    /\ Len(search_cache) = 2

\* the rows of the papers table with this id
RowsOf(id) == { i \in 1..Len(papers_tbl) : papers_tbl[i].id = Some(id) }

\* C9: the papers table never holds two rows of one id, and for every id saved
\* it holds one row, whose columns are those of the latest save_paper of that
\* id: saving the same content again leaves that one row, saving other content
\* (another citation count) replaces it.
C9_UpsertPaper ==
    /\ \A i, j \in 1..Len(papers_tbl) : i < j => papers_tbl[i].id # papers_tbl[j].id
    /\ \A i \in 1..Len(papers_tbl) :
          papers_tbl[i].id # None /\ papers_tbl[i].id[1] \in DOMAIN savelog
    /\ \A id \in DOMAIN savelog :
          /\ Cardinality(RowsOf(id)) = 1
          /\ \A i \in RowsOf(id) :
                LET row == papers_tbl[i]
                    p == savelog[id].paper
                IN  /\ row.title = Some(p.title)
                    /\ row.authors = Some(p.authors)
                    /\ row.year = p.year
                    /\ row.snippet = Some(p.snippet)
                    /\ row.url = Some(p.url)
                    /\ row.pdf_url = p.pdf_url
                    /\ row.citations = p.citations
                    /\ row.created_at = savelog[id].at

\* a paper saved over a stored paper of the same id and another citation count,
\* beside a paper of another id
C9_Witness ==
    /\ dbcall.op = "save"
    /\ ~dbcall.err
    /\ dbcall.key \in DOMAIN savelog
    /\ savelog[dbcall.key].replaced
    /\ savelog[dbcall.key].paper.citations = 7
    /\ Len(papers_tbl) = 2

-----------------------------------------------------------------------------
(* Properties of the functions *)

\* q[i..j] is q without its leading and trailing whitespace
IsCore(q, i, j) ==
    /\ \A k \in 1..Len(q) : (k < i \/ k > j) => IsSpace(q[k])
    /\ i <= j => (~IsSpace(q[i]) /\ ~IsSpace(q[j]))

\* q1 and q2 differ at most in letter case and in surrounding whitespace
SameNormalizedText(q1, q2) ==
    \E i1 \in 1..(Len(q1) + 1), j1 \in 0..Len(q1),
       i2 \in 1..(Len(q2) + 1), j2 \in 0..Len(q2) :
        /\ IsCore(q1, i1, j1)
        /\ IsCore(q2, i2, j2)
        /\ j1 - i1 = j2 - i2
        /\ \A k \in 0..(j1 - i1) : LowerChar(q1[i1 + k]) = LowerChar(q2[i2 + k])

\* C11: two calls of _generate_query_hash give the same key exactly when their
\* queries differ at most in letter case and surrounding whitespace and their
\* max_results are equal.
C11_CacheKey ==
    (Len(fn) = 2 /\ fn[1].op = "hash" /\ fn[2].op = "hash") =>
        ((fn[1].ret = fn[2].ret)
            <=> (/\ SameNormalizedText(fn[1].query, fn[2].query)
                 /\ fn[1].max_results = fn[2].max_results))

\* " x" and "X " with the same max_results got one key
C11_Witness ==
    /\ Len(fn) = 2
    /\ fn[1].query = <<" ", "x">>
    /\ fn[2].query = <<"X", " ">>
    /\ fn[1].max_results = fn[2].max_results
    /\ fn[1].ret = fn[2].ret

\* the calls of _extract_paper_data in the history
Extractions == { i \in 1..Len(fn) : fn[i].op = "extract" }

\* C12: a block with a title link, a detail line and a snippet but no 'Cited
\* by' link yields a paper with citations = 0; a paper of a block without a
\* direct-file link has pdf_url = None; every paper has citations >= 0.
C12_OptionalLinks ==
    \A i \in Extractions :
        LET b == fn[i].block
            ret == fn[i].ret
        IN  /\ (b.title_a # None /\ b.gs_a # None /\ b.gs_rs # None /\ b.cited_by = None)
                  => (ret # None /\ ret[1].citations = 0)
            /\ (ret # None /\ b.pdf_a = None) => ret[1].pdf_url = None
            /\ (ret # None /\ b.pdf_a # None) => ret[1].pdf_url = b.pdf_a
            /\ ret # None => ret[1].citations >= 0

\* a block without 'Cited by' link and a block without direct-file link, both
\* extracted
C12_Witness ==
    /\ Len(fn) = 2
    /\ fn[1].op = "extract" /\ fn[1].block = BlockB /\ fn[1].ret # None
    /\ fn[1].ret[1].citations = 0 /\ fn[1].ret[1].pdf_url # None
    /\ fn[2].op = "extract" /\ fn[2].block = BlockA /\ fn[2].ret # None
    /\ fn[2].ret[1].citations = 5 /\ fn[2].ret[1].pdf_url = None

\* C13: the year of an extracted paper, when it is not None, is a 4-digit value
\* that begins with 19 or 20.
C13_YearIsAYear ==
    \A i \in Extractions :
        (fn[i].ret # None /\ fn[i].ret[1].year # None)
            => (fn[i].ret[1].year[1] >= 1900 /\ fn[i].ret[1].year[1] <= 2099)

\* C14: two extractions that give papers of the same title give them the same
\* id, whatever the time of extraction and the rest of the blocks.
C14_StableId ==
    (Len(fn) = 2 /\ Extractions = {1, 2} /\ fn[1].ret # None /\ fn[2].ret # None
        /\ fn[1].ret[1].title = fn[2].ret[1].title)
      => fn[1].ret[1].id = fn[2].ret[1].id

\* the title "t1" extracted at two times from blocks with other authors,
\* citations and links
C14_Witness ==
    /\ Len(fn) = 2
    /\ Extractions = {1, 2}
    /\ fn[1].block = BlockA /\ fn[2].block = BlockA2
    /\ fn[1].at < fn[2].at
    /\ fn[1].ret[1].citations # fn[2].ret[1].citations
    /\ fn[1].ret[1].id = fn[2].ret[1].id

-----------------------------------------------------------------------------
(* Properties of the artifact fetcher *)

\* the last request reached download_pdf_if_available and the server answered
\* without declaring a PDF
NotAPdf == dl.called /\ ~dl.net.error /\ ~DeclaresPdf(dl.net)

\* C15: a request changes papers_dir, or returns a file path, only when the GET
\* was answered with a 2xx status and a content type that contains "pdf" in any
\* case; on a content-type mismatch it fails and papers_dir is as before.
C15_ValidatedWrite ==
    /\ (dl.called /\ (files # dl.before \/ dl.filepath # None))
          => /\ ~dl.net.error
             /\ dl.net.status >= 200 /\ dl.net.status <= 299
             /\ DeclaresPdf(dl.net)
    /\ NotAPdf => (dl.filepath = None /\ dl.status = 400 /\ files = dl.before)

C17_OneFilePerPaper ==
    /\ DOMAIN files \subseteq { FileName(id) : id \in PaperIds }
    /\ (dl.called /\ dl.filepath # None)
          => /\ dl.filepath = Some(FileName(dl.paper_id))
             /\ files = Put(dl.before, FileName(dl.paper_id), dl.net.content)
    /\ \A id \in DOMAIN dl.latest :
          /\ FileName(id) \in DOMAIN files
          /\ files[FileName(id)] = dl.latest[id]

\* paper "a" fetched again from another URL with another content, beside the file
\* of paper "b"
C17_Witness ==
    /\ dl.called
    /\ dl.filepath # None
    /\ dl.paper_id = <<"a">>
    /\ dl.pdf_url = "p2"
    /\ FileName(<<"a">>) \in DOMAIN dl.before
    /\ dl.before[FileName(<<"a">>)] = "c1"
    /\ files[FileName(<<"a">>)] = "c2"
    /\ FileName(<<"b">>) \in DOMAIN files

-----------------------------------------------------------------------------
(* Properties of the search route under failures *)

\* the run of scrape_papers returned its list
RunReturned == HasCall("scrape") /\ stop.why \in {"quota", "absent", "disabled", "captcha"}

\* C18: a Search whose cache lookup met a store error goes on as on a miss (the
\* scraper is called); a Search whose run returned answers 200 with the scraped
\* papers and from_cache = false, also when its cache write met a store error.
C18_CacheIsSideEffect ==
    /\ (calls # <<>> /\ calls[1].err)
          => /\ cached = None
             /\ pc # "idle"
             /\ pc = "responded" => (HasCall("scrape") /\ ~resp.from_cache)
    /\ (pc = "responded" /\ RunReturned)
          => /\ Len(calls) = 3
             /\ resp = [status |-> 200, papers |-> papers, from_cache |-> FALSE]

\* a Search whose lookup and whose cache write both met a store error, answered
\* with the paper it scraped
C18_Witness ==
    /\ pc = "responded"
    /\ Len(calls) = 3
    /\ calls[1].err
    /\ calls[3].err
    /\ papers # <<>>
    /\ resp = [status |-> 200, papers |-> papers, from_cache |-> FALSE]
    /\ search_cache = <<>>

\* the response of a run that completed and found nothing
NothingFound == [status |-> 200, papers |-> <<>>, from_cache |-> FALSE]

\* C19: the response of a Search whose run was aborted (challenge detected, or
\* an error in scrape_papers) differs from the response of a completed run that
\* found nothing.
C19_AbortedDistinguishable ==
    (pc = "responded" /\ HasCall("scrape") /\ stop.why \notin {"quota", "absent", "disabled"})
        => resp # NothingFound

\* C20: a Search with an empty or absent query answers 400 and has made no
\* cache lookup, no cache write and no call of the scraper.
C20_EmptyQueryRejected ==
    (pc = "responded" /\ req.query = <<>>)
        => /\ resp.status = 400
           /\ calls = <<>>
           /\ cached = None
           /\ driver = "none"
           /\ stop = NoStop

\* an empty query answered while the cache holds an entry
C20_Witness ==
    /\ pc = "responded"
    /\ req.query = <<>>
    /\ resp.status = 400
    /\ search_cache # <<>>

-----------------------------------------------------------------------------
(* Properties of the page loop, read from the events of a run *)

\* the positions of the events of these kinds
EventsOf(kinds) == { i \in 1..Len(ev) : ev[i].e \in kinds }

\* the waits for the results container
ResultWaits == EventsOf({"wait", "wait_timeout"})

\* C21: a run that ended by a results-wait timeout waited for that page a second
\* time (the retry) before it gave up.
C21_RetryOnTimeout ==
    (RunEnded /\ stop.why = "timeout") => Cardinality(ResultWaits) >= 2

\* C22: a run that ended by a challenge on a results page paused (the long
\* sleep) after the poll that found it and polled again before it gave up.
C22_RepollOnChallenge ==
    (RunEnded /\ stop.why = "captcha") =>
        \E i, j, k \in 1..Len(ev) :
            /\ i < j /\ j < k
            /\ ev[i].e = "poll" /\ ev[i].found
            /\ ev[j].e = "sleep30"
            /\ ev[k].e = "poll"

\* the iteration just made ended with a click on "Next" and the delay after it
JustClicked == pc = "loop" /\ Len(ev) >= 2 /\ ev[Len(ev) - 1].e = "click"

\* C23: the driver clicks "Next" (and delays) only while fewer than max_results
\* papers are collected; with the quota met on a page the "Next" control is not
\* touched.
C23_NoNavigationAtQuota ==
    /\ JustClicked => Len(papers) < req.max_results
    /\ (RunEnded /\ stop.why = "stale") => Len(papers) < req.max_results

\* the blocks of a page that _extract_paper_data turns into a paper, in page order
Extractable(blocks, now) ==
    SelectSeq(blocks, LAMBDA b : extract_paper_data(b, now) # None)

\* the first n elements of a sequence (all of them if it is shorter)
Take(seq, n) == SubSeq(seq, 1, IF n < Len(seq) THEN n ELSE Len(seq))

\* C24: the for loop over a page adds to the papers of earlier pages the paper of
\* every block that extracts, in page order, up to the quota; a block that fails
\* adds nothing and does not keep the blocks after it from being collected.
C24_BlockFailuresAbsorbed ==
    \A i \in 1..Len(fn) :
        fn[i].op = "page" =>
            LET good == Extractable(fn[i].blocks, fn[i].at)
                room == fn[i].max_results - Len(fn[i].before)
                kept == Take(good, room)
            IN  fn[i].ret = fn[i].before \o
                    [k \in 1..Len(kept) |-> extract_paper_data(kept[k], fn[i].at)[1]]

\* a page whose first block fails and whose later block was collected
C24_Witness ==
    \E i \in 1..Len(fn) :
        /\ fn[i].op = "page"
        /\ Len(fn[i].blocks) >= 2
        /\ extract_paper_data(fn[i].blocks[1], fn[i].at) = None
        /\ Len(fn[i].ret) > Len(fn[i].before)

\* C25: _extract_paper_data fails (returns None) exactly when the block has no
\* title link or no detail line; a block without a snippet element yields a
\* paper all the same.
C25_FailsOnlyWithoutTitleOrDetail ==
    \A i \in Extractions :
        fn[i].ret = None <=> (fn[i].block.title_a = None \/ fn[i].block.gs_a = None)

\* the navigations of the run
Navigations == { i \in 1..Len(ev) : IsNav(ev[i]) }

\* a delay within delay_range
IsWindowDelay(x) == x.e = "delay" /\ x.in_window

\* C26 as stated: every navigation is preceded by a delay within the window,
\* with no other navigation between that delay and it. (The first event of a
\* history that was cut at a navigation is left out: what preceded it is not
\* in the history.)
C26_DelayBeforeNavigation ==
    \A i \in Navigations \ {1} :
        \E j \in 1..(i - 1) :
            /\ IsWindowDelay(ev[j])
            /\ \A k \in (j + 1)..(i - 1) : ~IsNav(ev[k])

\* C26, amended: every navigation is followed at once by a delay within the
\* window 2..5 s, so no two navigations happen without a delay between them.
C26_DelayAfterNavigation ==
    /\ \A i \in Navigations : i < Len(ev) /\ IsWindowDelay(ev[i + 1])
    /\ \A i, j \in Navigations :
           i < j => \E k \in (i + 1)..(j - 1) : IsWindowDelay(ev[k])

\* the driver clicked "Next" after an earlier navigation
C26_Witness ==
    \E i, j \in Navigations : i < j /\ ev[j].e = "click" /\ IsWindowDelay(ev[j + 1])

\* the 30 second pauses of the run
LongPauses == EventsOf({"sleep30"})

\* C27: time.sleep(30) runs only right after a _detect_captcha that returned
\* True, and at most once on a page.
C27_PauseOnlyAfterChallenge ==
    /\ \A i \in LongPauses : i > 1 /\ ev[i - 1].e = "poll" /\ ev[i - 1].found
    /\ \A i, j \in LongPauses :
           i < j => \E k \in (i + 1)..(j - 1) : IsNav(ev[k])

\* a run that paused on the home page
C27_Witness ==
    \E i \in LongPauses : i > 1 /\ ev[i - 1].e = "poll" /\ ev[i - 1].found

\* the calls of _detect_captcha in the history
Detections == { i \in 1..Len(fn) : fn[i].op = "detect" }

\* the position in captcha_elements of the first marker the page holds (0: none)
FirstMarker(dom) ==
    LET held == { k \in 1..Len(captcha_elements) : captcha_elements[k] \in dom }
    IN  IF held = {} THEN 0 ELSE CHOOSE k \in held : \A m \in held : k <= m

\* C28 as stated: _detect_captcha returns True exactly when the page holds one
\* of the three markers.
C28_ChallengeIffMarker ==
    \A i \in Detections : fn[i].ret <=> fn[i].dom # {}

\* C28, amended: _detect_captcha returns True exactly when the page holds a
\* marker and no lookup raises before the first marker held is found; the
\* markers are looked up in list order and the first one found ends the search;
\* the only driver calls made are find_elements lookups.
C28_ChallengeIffMarkerFound ==
    \A i \in Detections :
        LET m == FirstMarker(fn[i].dom)
            found == m # 0 /\ (fn[i].raises_at = 0 \/ fn[i].raises_at > m)
        IN  /\ fn[i].ret <=> found
            /\ found => /\ fn[i].matched = Some(captcha_elements[m])
                        /\ Len(fn[i].driver_calls) = m
            /\ \A k \in 1..Len(fn[i].driver_calls) :
                   fn[i].driver_calls[k] = "find_elements"

\* one call found the second marker on a page without the first, another
\* answered False on a page that holds a marker because a lookup raised
C28_Witness ==
    \E i, j \in Detections :
        /\ fn[i].ret /\ fn[i].matched = Some(captcha_elements[2])
        /\ captcha_elements[3] \in fn[i].dom
        /\ ~fn[j].ret /\ fn[j].dom # {} /\ fn[j].raises_at # 0

\* C29: on every exit path of an operation that starts a session, a failure
\* while starting included, every session started was quit once and the
\* teardown raised no further error.
C29_SessionTornDownOnce ==
    \A i \in 1..Len(fn) :
        fn[i].op = "abstract" => fn[i].raised = None /\ fn[i].quits = fn[i].started

\* the rows of the cache table
CacheRows(tbl) == { tbl[i] : i \in 1..Len(tbl) }

\* the rows a get_cached_search at this time does not return any more
ExpiredRows == { r \in CacheRows(search_cache) : ~(r.created_at + cache_hours > clock) }

\* C30: get_cached_search leaves the cache table as it is; a row leaves the
\* table only by a cache_search_results for its key that replaces it or by a
\* cleanup_old_cache that deletes it as older than its days.
C30_GetIsReadOnly ==
    [][ /\ dbcall'.op = "get" => search_cache' = search_cache
        /\ \A r \in CacheRows(search_cache) \ CacheRows(search_cache') :
              \/ /\ dbcall'.op = "put"
                 /\ ~dbcall'.err
                 /\ dbcall'.key = r.query_hash
              \/ /\ dbcall'.op = "cleanup"
                 /\ ~dbcall'.err
                 /\ r.created_at < clock - dbcall'.days * HoursPerDay ]_vars

\* a lookup of an expired row answered None and the row is still in the table
C30_Witness ==
    /\ dbcall.op = "get" /\ ~dbcall.err /\ dbcall.at = clock /\ dbcall.ret = None
    /\ \E r \in ExpiredRows : r.query_hash = dbcall.key

-----------------------------------------------------------------------------
(* Properties settled last *)

PapersOfBlocks(blocks, now) ==
    LET good == Extractable(blocks, now)
    IN  [k \in 1..Len(good) |-> extract_paper_data(good[k], now)[1]]

\* the rows of the cache table under the key of thread t
RowsOfThread(t) ==
    { r \in CacheRows(search_cache) :
        r.query_hash = generate_query_hash(ConcQuery(t), MaxResults) }

\* C32: with two searches for different queries interleaved, the list of each
\* is made of the blocks of the pages its own browser showed, in order and cut
\* at max_results; what it answers and what it caches is that list; and no
\* paper of one is in the list of the other.
C32_SearchesIndependent ==
    \A t \in DOMAIN th :
        /\ th[t].papers = Take(PapersOfBlocks(th[t].seen, clock), MaxResults)
        /\ (th[t].pc = "responded" /\ th[t].resp.status = 200)
              => th[t].resp.papers = th[t].papers
        /\ \A r \in RowsOfThread(t) :
              th[t].pc = "responded" /\ JsonLoads(r.results) = th[t].papers
        /\ \A u \in DOMAIN th \ {t} :
              \A i \in 1..Len(th[t].papers), j \in 1..Len(th[u].papers) :
                  th[t].papers[i] # th[u].papers[j]

\* thread 1 has answered and cached its full list while thread 2 is in its page
\* loop with a paper of its own
C32_Witness ==
    /\ 1 \in DOMAIN th /\ 2 \in DOMAIN th
    /\ th[1].pc = "responded"
    /\ Len(th[1].papers) = MaxResults
    /\ RowsOfThread(1) # {}
    /\ th[2].pc = "loop"
    /\ Len(th[2].papers) >= 1
    /\ th[2].driver = "open"

\* the lists of the Puts begun so far
ListsPut == { fn[k].results : k \in 1..Len(fn) }

\* C33: however Puts and Gets on one key interleave, the table holds at most one
\* row for the key, that row is the complete list of one Put, and a Get returns
\* None or the complete list of one Put.
C33_AtomicPerKey ==
    /\ \A i, j \in 1..Len(search_cache) :
          search_cache[i].query_hash = search_cache[j].query_hash => i = j
    /\ \A r \in CacheRows(search_cache) :
          /\ r.query_hash = generate_query_hash(KeyQuery, MaxResults)
          /\ JsonLoads(r.results) \in ListsPut
    /\ \A t \in DOMAIN th :
          th[t].op = "get" => (th[t].ret = None \/ th[t].ret[1] \in ListsPut)

\* a Get answered the committed list while another connection held an
\* uncommitted row with another list
C33_Witness ==
    \E t, u \in DOMAIN th :
        /\ th[t].op = "get" /\ th[t].ret # None
        /\ th[u].op = "put" /\ th[u].pc = "written"
        /\ th[u].results # th[t].ret[1]
        /\ th[t].at = clock

\* the calls of search_papers in the history
Searches == { i \in 1..Len(fn) : fn[i].op = "search" }

\* C34: a search answered from the cache gets the papers of a run that typed
\* the search terms of its own year range.
C34_CacheHitRespectsYearRange ==
    \A i \in Searches :
        fn[i].from_cache =>
            LET h == generate_query_hash(fn[i].query, fn[i].max_results)
            IN  /\ h \in DOMAIN putlog
                /\ putlog[h].typed = SearchTerms(fn[i].query, fn[i].year_range)

\* the request was answered with an error after its scraper run raised
ScrapeFailed == pc = "responded" /\ HasCall("scrape") /\ stop.why \notin
                    {"none", "quota", "absent", "disabled", "captcha"}

\* C35: a Search whose scraper run raised answers 500 and makes no cache write;
\* the cache table changes only in the step that answers a run that returned;
\* and, the cache lookup of the Search having been a miss (not a store error),
\* the same Search made again misses the cache and scrapes again.
C35_FailedScrapeKeepsCache ==
    /\ [](ScrapeFailed =>
            /\ resp.status = 500
            /\ ~HasCall("put")
            /\ ~calls[1].err =>
                  ~Truthy(get_cached_search(search_cache, req.query, req.max_results,
                                            clock, FALSE)))
    /\ [][search_cache' # search_cache =>
            (pc = "returned" /\ pc' = "responded" /\ resp'.status = 200)]_vars

\* a failed search for a query whose expired entry is still in the table
C35_Witness ==
    /\ ScrapeFailed
    /\ resp.status = 500
    /\ \E r \in CacheRows(search_cache) :
          r.query_hash = generate_query_hash(req.query, req.max_results)

\* C36: after a Put on a key that had an entry, the table holds one row for the
\* key, with the list and the time of the latest Put; a Get returns that list
\* exactly while less than cache_hours have passed since the latest Put,
\* whenever the first one was.
C36_PutRestartsTTL ==
    fn # <<>> =>
        LET latest == fn[Len(fn)]
        IN  /\ Len(search_cache) = 1
            /\ search_cache[1].created_at = latest.at
            /\ JsonLoads(search_cache[1].results) = latest.results
            /\ (dbcall.op = "get" /\ ~dbcall.err) =>
                  /\ dbcall.at < latest.at + cache_hours
                        => dbcall.ret = Some(latest.results)
                  /\ dbcall.at >= latest.at + cache_hours => dbcall.ret = None

\* a Get, cache_hours or more after the first Put and less after the latest
\* Put with another list, returned the list of the latest
C36_Witness ==
    /\ Len(fn) = 2
    /\ fn[1].at < fn[2].at
    /\ fn[1].results # fn[2].results
    /\ dbcall.op = "get" /\ ~dbcall.err
    /\ dbcall.at >= fn[1].at + cache_hours
    /\ dbcall.ret = Some(fn[2].results)

\* the pages of the blocks extracted in the run, in the order of extraction
PagesOf(ex) == [i \in 1..Len(ex) |-> ex[i].page]

\* C37: in a step of the page loop, `papers` is either left as it is or extended
\* at its end by the papers of the blocks of the current page that extract, in
\* page order, up to max_results, and page_num does not decrease; the list is
\* the papers extracted in the run, in the order of their pages, never longer
\* than max_results; and a run that returned is answered with that list.
C37_CollectedGrowsInOrder ==
    /\ [][pc = "loop" =>
            /\ \/ papers' = papers
               \/ papers' = papers \o Take(PapersOfBlocks(page.blocks, clock),
                                           req.max_results - Len(papers))
            /\ page_num' >= page_num]_vars
    /\ [](/\ papers = PapersOf(extracted)
          /\ Len(papers) <= req.max_results
          /\ \A i, j \in 1..Len(extracted) :
                i < j => PagesOf(extracted)[i] <= PagesOf(extracted)[j]
          /\ (pc = "responded" /\ resp.status = 200 /\ ~resp.from_cache)
                => resp.papers = papers)

\* a run that returned two papers, the first from an earlier page than the second
C37_Witness ==
    /\ pc = "returned"
    /\ Len(papers) = 2
    /\ page_num >= 1
    /\ extracted[1].page < extracted[2].page

\* this step is a call of cleanup_old_cache
CleanupStep == dbcall'.op = "cleanup" /\ clock' = clock

\* a row get_cached_search still returns at this time
IsFresh(r) == r.created_at + cache_hours > clock

\* C38: cleanup_old_cache(days) deletes the rows created more than days days
\* ago and no other, and returns their number (nothing and 0 when the statement
\* fails); with days of at least cache_hours, the default 7 among them, no row
\* deleted is one get_cached_search would return; the papers table is left alone.
C38_CleanupKeepsFresh ==
    [][CleanupStep =>
          LET Old(r) == r.created_at < clock - dbcall'.days * HoursPerDay
              Young(r) == ~Old(r)
              gone == CacheRows(search_cache) \ CacheRows(search_cache')
          IN  /\ search_cache' = IF dbcall'.err THEN search_cache
                                 ELSE SelectSeq(search_cache, Young)
              /\ dbcall'.ret = Len(search_cache) - Len(search_cache')
              /\ dbcall'.days * HoursPerDay >= cache_hours
                    => \A r \in gone : ~IsFresh(r)
              /\ papers_tbl' = papers_tbl]_vars

\* the default cleanup deleted a row, kept another, and the papers table holds
\* a paper
C38_Witness ==
    /\ dbcall.op = "cleanup" /\ ~dbcall.err /\ dbcall.at = clock
    /\ dbcall.days = 7
    /\ dbcall.ret >= 1
    /\ search_cache # <<>>
    /\ papers_tbl # <<>>

=============================================================================
